---- MODULE Spec2Model ----
(***************************************************************************)
(* A model of analyze_viewmodels.py, the unused-ViewModel finder for ZK     *)
(* projects.  Strings are TLA+ strings and are taken apart with Len, \o and *)
(* SubSeq the way the Python code takes them apart.                         *)
(*                                                                          *)
(* The module holds several specifications over one set of variables, one   *)
(* per component of the program:                                            *)
(*   Spec         the usage model: analyze_java_usages, run_analysis,       *)
(*                get_unused_methods / generate_report                      *)
(***************************************************************************)
EXTENDS Integers, Sequences, FiniteSets, TLC

VARIABLES
    view_models,          \* fqdn -> ViewModelInfo (methods held in declaration order)
    zul_usages,           \* the usage index handed to run_analysis: fqdn -> set of identifiers
    IGNORED_ANNOTATIONS,  \* the module global of the same name
    stage,                \* position in main(): "indexed", "java", "analysed"
    runs,                 \* number of completed run_analysis calls
    report,               \* the last result of generate_report
    \* interactive_session
    cache,                \* the decision dict of the session: method id -> "y", "n" or None (absent)
    cache_file,           \* the content of CACHE_FILE on disk, same shape
    candidates,           \* get_unused_methods(view_models) of the session
    at,                   \* <<i, j>>: the loops stand at method j of candidate i, in input()
    approved_for_deletion,\* the list of approved <<fqdn, method name>>
    quit_session,         \* the flag of the same name
    session,              \* "off", "input" (blocked in input()), "returned"
    \* analyze_java_files
    asts,                 \* the parsed Java files, in the order of the asts dict
    resolved_constants,   \* the global dict of the same name
    \* find_zul_usages
    zul_files,            \* the template files on disk: path -> [parses, elems]
    ALL_PROJECT_FILES,    \* the list of the same name, filled by main()
    partial_match,        \* the command line switch of the same name
    zul_walk,             \* the files the loop of find_zul_usages has still to take
    all_usages,           \* the defaultdict of the same name: fqdn -> set of identifiers
    visited,              \* the visited set of the traversal under way
    call_stack,           \* the frames of find_zul_usages_recursive, outermost first
    zul_status,           \* "off", "running", "done", or "raised" (an exception got out)
    scans,                \* the body scans so far, each with the locals it ran with
    \* generate_patches
    source_files,         \* the Java files on disk that can be read: path -> lines
    patches,              \* per patched file: lines_to_delete, new_lines (None: not written)
    patch_status          \* "off", "approved" (about to be called), "nothing", "written"

analysisVars == <<view_models, zul_usages, IGNORED_ANNOTATIONS, stage, runs, report>>
sessionVars == <<cache, cache_file, candidates, at, approved_for_deletion, quit_session,
                 session>>

javaVars == <<asts, resolved_constants>>

zulVars == <<zul_files, ALL_PROJECT_FILES, partial_match, zul_walk, all_usages, visited,
             call_stack, zul_status, scans>>

patchVars == <<source_files, patches, patch_status>>

vars == <<analysisVars, sessionVars, javaVars, zulVars, patchVars>>

(***************************************************************************)
(* Bounds of the model.                                                     *)
(***************************************************************************)
MaxRuns == 2
MaxApproved == 3

(***************************************************************************)
(* Python values.                                                           *)
(***************************************************************************)
None == "<None>"

\* dict.get(key, default) on a dict modelled as a function
DictGet(d, key, default) == IF key \in DOMAIN d THEN d[key] ELSE default

\* a prefix test that only accepts the whole string
StartsWithWhole(s, prefix) == s = prefix

\* str.startswith / str.endswith
StartsWith(s, prefix) ==
    /\ Len(prefix) <= Len(s)
    /\ SubSeq(s, 1, Len(prefix)) = prefix

EndsWith(s, suffix) ==
    /\ Len(suffix) <= Len(s)
    /\ SubSeq(s, Len(s) - Len(suffix) + 1, Len(s)) = suffix

\* s[i] as a one-character string (1-based)
CharAt(s, i) == SubSeq(s, i, i)

LowerCase == "abcdefghijklmnopqrstuvwxyz"
UpperCase == "ABCDEFGHIJKLMNOPQRSTUVWXYZ"

\* str.upper() of one character
Upper(c) ==
    IF \E i \in 1..Len(LowerCase) : CharAt(LowerCase, i) = c
    THEN CharAt(UpperCase, CHOOSE i \in 1..Len(LowerCase) : CharAt(LowerCase, i) = c)
    ELSE c

\* f"{name[0].upper()}{name[1:]}" (name is not empty)
Capitalized(name) == Upper(CharAt(name, 1)) \o SubSeq(name, 2, Len(name))

\* d[key] = value on a dict modelled as a function
DictPut(d, key, value) ==
    [k \in DOMAIN d \cup {key} |-> IF k = key THEN value ELSE d[k]]

Min(S) == CHOOSE x \in S : \A y \in S : x <= y
Max(S) == CHOOSE x \in S : \A y \in S : x >= y

\* the greatest index of character c in s, 0 when absent (str.rfind + 1)
LastIndexOf(s, c) ==
    LET idx == {i \in 1..Len(s) : CharAt(s, i) = c}
    IN  IF idx = {} THEN 0 ELSE Max(idx)

\* str.strip(chars): drop the leading and trailing characters that are in chars
StripChars(s, chars) ==
    LET keep == {i \in 1..Len(s) : CharAt(s, i) \notin chars}
    IN  IF keep = {} THEN "" ELSE SubSeq(s, Min(keep), Max(keep))

Whitespace == {" ", "\t"}

\* the elements of a set in the order a Python loop over it happens to take
RECURSIVE SeqOf(_)
SeqOf(S) ==
    IF S = {} THEN <<>>
    ELSE LET x == CHOOSE y \in S : TRUE IN <<x>> \o SeqOf(S \ {x})

\* character order of Python string comparison, for the characters of the model
AsciiOrder == "#.0123456789ABCDEFGHIJKLMNOPQRSTUVWXYZ_abcdefghijklmnopqrstuvwxyz"
Ord(c) == CHOOSE i \in 1..Len(AsciiOrder) : CharAt(AsciiOrder, i) = c

\* a < b on Python strings
RECURSIVE StrLess(_, _)
StrLess(a, b) ==
    IF b = "" THEN FALSE
    ELSE IF a = "" THEN TRUE
    ELSE IF CharAt(a, 1) = CharAt(b, 1)
         THEN StrLess(SubSeq(a, 2, Len(a)), SubSeq(b, 2, Len(b)))
         ELSE Ord(CharAt(a, 1)) < Ord(CharAt(b, 1))

\* sorted(S) for a set of strings
RECURSIVE SortedStrings(_)
SortedStrings(S) ==
    IF S = {} THEN <<>>
    ELSE LET least == CHOOSE x \in S : \A y \in S \ {x} : StrLess(x, y)
         IN  <<least>> \o SortedStrings(S \ {least})

(***************************************************************************)
(* MethodInfo and ViewModelInfo.                                            *)
(***************************************************************************)
CommandPrefixes == {"@Command(", "@GlobalCommand(", "@DefaultCommand("}

\* re.search(r'@(?:Global|Default)?Command\((.*)\)', ann_str): <<group(1)>> of the
\* leftmost match, with the greedy (.*) running to the last ")"; <<>> for no match
CommandMatch(ann_str) ==
    LET n == Len(ann_str)
        At(i, p) == /\ i + Len(p) - 1 <= n
                    /\ SubSeq(ann_str, i, i + Len(p) - 1) = p
                    /\ \E j \in (i + Len(p))..n : CharAt(ann_str, j) = ")"
        starts == {i \in 1..n : \E p \in CommandPrefixes : At(i, p)}
    IN  IF starts = {} THEN <<>>
        ELSE LET i == Min(starts)
                 p == CHOOSE q \in CommandPrefixes : At(i, q)
                 close == Max({j \in (i + Len(p))..n : CharAt(ann_str, j) = ")"})
             IN  <<SubSeq(ann_str, i + Len(p), close - 1)>>

\* MethodInfo._extract_command_name, reading the global resolved_constants
RECURSIVE ExtractCommandName(_, _, _, _)
ExtractCommandName(annotations_text, imports, pkg, constants) ==
    IF annotations_text = <<>> THEN None
    ELSE
      LET match == CommandMatch(Head(annotations_text))
          next  == ExtractCommandName(Tail(annotations_text), imports, pkg, constants)
      IN  IF match = <<>> THEN next
          ELSE
            LET content == StripChars(match[1], Whitespace)
                dot == LastIndexOf(content, ".")
            IN  IF StartsWith(content, "\"") /\ EndsWith(content, "\"")
                THEN StripChars(content, {"\""})
                ELSE IF dot > 0
                THEN LET const_name == SubSeq(content, dot + 1, Len(content))
                         class_path == SubSeq(content, 1, dot - 1)
                         class_name == SubSeq(class_path,
                                              LastIndexOf(class_path, ".") + 1,
                                              Len(class_path))
                         fqdn == DictGet(imports, class_name,
                                   DictGet(imports, class_path, pkg \o "." \o class_path))
                         const_fqdn == fqdn \o "." \o const_name
                     IN  DictGet(constants, const_fqdn, None)
                ELSE next

\* MethodInfo.__init__
MethodInfo(name, annotations_text, line, block_start_line, imports, pkg, constants) ==
    [name             |-> name,
     annotations_text |-> annotations_text,
     line             |-> line,
     block_start_line |-> block_start_line,
     command_name     |-> ExtractCommandName(annotations_text, imports, pkg, constants),
     used_in_java     |-> FALSE,
     used_in_zul      |-> FALSE]

\* ViewModelInfo.__init__; methods is the dict in insertion order
ViewModelInfo(name, fqdn, file_path, extends, methods) ==
    [name |-> name, fqdn |-> fqdn, file_path |-> file_path, extends |-> extends,
     methods |-> methods, is_used_in_zul |-> FALSE, is_used_in_java |-> FALSE]

\* the for loop of MethodInfo.is_used over annotations_text
RECURSIVE IgnoredByAnnotation(_, _)
IgnoredByAnnotation(annotations_text, ignored) ==
    IF annotations_text = <<>> THEN FALSE
    ELSE IF \E ig \in ignored : StartsWith(Head(annotations_text), ig) THEN TRUE
    ELSE IgnoredByAnnotation(Tail(annotations_text), ignored)

\* MethodInfo.is_used
MethodIsUsed(meth, ignored) ==
    IF IgnoredByAnnotation(meth.annotations_text, ignored) THEN TRUE
    ELSE meth.used_in_java \/ meth.used_in_zul

\* is_used looking at the ViewModel's own flags only
ViewModelIsUsedFlagsOnly(vm, ignored) == vm.is_used_in_zul \/ vm.is_used_in_java

\* ViewModelInfo.is_used
ViewModelIsUsed(vm, ignored) ==
    IF vm.is_used_in_zul \/ vm.is_used_in_java THEN TRUE
    ELSE \E i \in DOMAIN vm.methods : MethodIsUsed(vm.methods[i], ignored)

\* name in vm.methods
HasMethod(vm, name) == \E i \in DOMAIN vm.methods : vm.methods[i].name = name

(***************************************************************************)
(* analyze_java_usages.  An AST is a record                                 *)
(*   [pkg, imports, lvds, invs, crs]                                        *)
(* with the file's package name ("" when none), its import table, and, in   *)
(* the order tree.filter yields them, its LocalVariableDeclarations         *)
(* [type, names], MethodInvocations [qualifier, member] (qualifier None     *)
(* when it is not a plain identifier) and ClassCreators (type names).       *)
(***************************************************************************)
\* imports.get(type_name, f"{pkg}.{type_name}")
ResolveType(ast, type_name) == DictGet(ast.imports, type_name, ast.pkg \o "." \o type_name)

\* the var_types dict after the loop over LocalVariableDeclaration
RECURSIVE VarTypes(_, _, _, _)
VarTypes(ast, vms, lvds, var_types) ==
    IF lvds = <<>> THEN var_types
    ELSE LET lvd  == Head(lvds)
             fqdn == ResolveType(ast, lvd.type)
             declared == {lvd.names[i] : i \in DOMAIN lvd.names}
         IN  VarTypes(ast, vms, Tail(lvds),
                      IF fqdn \in DOMAIN vms
                      THEN [v \in DOMAIN var_types \cup declared |->
                               IF v \in declared THEN fqdn ELSE var_types[v]]
                      ELSE var_types)

\* the loop over MethodInvocation
RECURSIVE MarkInvocations(_, _, _)
MarkInvocations(vms, var_types, invs) ==
    IF invs = <<>> THEN vms
    ELSE LET inv == Head(invs)
             vm_fqdn == var_types[inv.qualifier]
         IN  IF /\ inv.qualifier # None
                /\ inv.qualifier \in DOMAIN var_types
                /\ vm_fqdn \in DOMAIN vms
                /\ HasMethod(vms[vm_fqdn], inv.member)
             THEN MarkInvocations(
                    [vms EXCEPT ![vm_fqdn].is_used_in_java = TRUE,
                                ![vm_fqdn].methods =
                                    [i \in DOMAIN @ |->
                                        IF @[i].name = inv.member
                                        THEN [@[i] EXCEPT !.used_in_java = TRUE]
                                        ELSE @[i]]],
                    var_types, Tail(invs))
             ELSE MarkInvocations(vms, var_types, Tail(invs))

\* the loop over ClassCreator
RECURSIVE MarkCreators(_, _, _)
MarkCreators(ast, vms, crs) ==
    IF crs = <<>> THEN vms
    ELSE LET fqdn == ResolveType(ast, Head(crs))
         IN  MarkCreators(ast,
                          IF fqdn \in DOMAIN vms
                          THEN [vms EXCEPT ![fqdn].is_used_in_java = TRUE]
                          ELSE vms,
                          Tail(crs))

\* the body of the loop over asts.items(), for one tree
AnalyzeJavaTree(ast, vms) ==
    LET var_types == VarTypes(ast, vms, ast.lvds, <<>>)
    IN  MarkCreators(ast, MarkInvocations(vms, var_types, ast.invs), ast.crs)

\* analyze_java_usages(asts, view_models), asts in dict order
RECURSIVE analyze_java_usages(_, _)
analyze_java_usages(trees, vms) ==
    IF trees = <<>> THEN vms
    ELSE analyze_java_usages(Tail(trees), AnalyzeJavaTree(Head(trees), vms))

(***************************************************************************)
(* run_analysis.                                                            *)
(***************************************************************************)
\* meth.name == name or meth.command_name == name
ExactMatch(meth, name) == meth.name = name \/ meth.command_name = name

\* meth.name in (getter, setter, is_getter)
AccessorMatch(meth, name) ==
    meth.name \in {"get" \o Capitalized(name),
                   "set" \o Capitalized(name),
                   "is"  \o Capitalized(name)}

\* the while loop of the first pass, for one identifier, from curr_fqdn upward
RECURSIVE Climb(_, _, _)
Climb(vms, curr_fqdn, name) ==
    IF curr_fqdn \notin DOMAIN vms THEN vms
    ELSE LET vm == vms[curr_fqdn]
             found == \E i \in DOMAIN vm.methods : ExactMatch(vm.methods[i], name)
             marked == [vms EXCEPT ![curr_fqdn].methods =
                          [i \in DOMAIN @ |->
                              IF ExactMatch(@[i], name) \/ AccessorMatch(@[i], name)
                              THEN [@[i] EXCEPT !.used_in_zul = TRUE]
                              ELSE @[i]]]
         IN  IF found THEN marked ELSE Climb(marked, vm.extends, name)

\* for name in names
RECURSIVE ClimbNames(_, _, _)
ClimbNames(vms, fqdn, names) ==
    IF names = <<>> THEN vms
    ELSE ClimbNames(Climb(vms, fqdn, Head(names)), fqdn, Tail(names))

\* the first pass: for fqdn, names in zul_usages.items()
RECURSIVE AttributeUsages(_, _, _)
AttributeUsages(vms, usages, fqdns) ==
    IF fqdns = <<>> THEN vms
    ELSE LET fqdn == Head(fqdns)
         IN  AttributeUsages(
               IF fqdn \in DOMAIN vms
               THEN ClimbNames([vms EXCEPT ![fqdn].is_used_in_zul = TRUE],
                               fqdn, SeqOf(usages[fqdn]))
               ELSE vms,
               usages, Tail(fqdns))

\* the flags of the named methods of `from` OR-ed into the same-named methods of `into`
MergeFlags(into, from) ==
    [j \in DOMAIN into |->
        LET src == {i \in DOMAIN from :
                      /\ from[i].name = into[j].name
                      /\ from[i].used_in_java \/ from[i].used_in_zul}
        IN  [into[j] EXCEPT
               !.used_in_java = @ \/ \E i \in src : from[i].used_in_java,
               !.used_in_zul  = @ \/ \E i \in src : from[i].used_in_zul]]

\* a second pass that stops at the direct parent
PropagateUpOnce(vms, fqdn, parent_fqdn) ==
    IF parent_fqdn \notin DOMAIN vms THEN vms
    ELSE [vms EXCEPT ![parent_fqdn].methods = MergeFlags(@, vms[fqdn].methods)]

\* a second pass that also hands the parent's flags down to the override
PropagateBothWays(vms, fqdn, parent_fqdn) ==
    IF parent_fqdn \notin DOMAIN vms THEN vms
    ELSE [vms EXCEPT ![parent_fqdn].methods = MergeFlags(@, vms[fqdn].methods),
                     ![fqdn].methods = MergeFlags(@, vms[parent_fqdn].methods)]

\* a second pass that gives up at the first ancestor declaring none of the methods
RECURSIVE PropagateUpDeclaring(_, _, _)
PropagateUpDeclaring(vms, fqdn, parent_fqdn) ==
    IF parent_fqdn \notin DOMAIN vms THEN vms
    ELSE IF \A i \in DOMAIN vms[fqdn].methods :
                ~HasMethod(vms[parent_fqdn], vms[fqdn].methods[i].name)
    THEN vms
    ELSE PropagateUpDeclaring(
            [vms EXCEPT ![parent_fqdn].methods = MergeFlags(@, vms[fqdn].methods)],
            fqdn, vms[parent_fqdn].extends)

\* the while loop of the second pass for one ViewModel, from parent_fqdn upward
RECURSIVE PropagateUp(_, _, _)
PropagateUp(vms, fqdn, parent_fqdn) ==
    IF parent_fqdn \notin DOMAIN vms THEN vms
    ELSE PropagateUp([vms EXCEPT ![parent_fqdn].methods = MergeFlags(@, vms[fqdn].methods)],
                     fqdn, vms[parent_fqdn].extends)

\* the second pass: for fqdn, vm in view_models.items(), in the dict's order
RECURSIVE PropagateAll(_, _)
PropagateAll(vms, order) ==
    IF order = <<>> THEN vms
    ELSE PropagateAll(PropagateUp(vms, Head(order), vms[Head(order)].extends),
                      Tail(order))

\* the orders in which a dict with these keys can be iterated
Orders(keys) ==
    {o \in [1..Cardinality(keys) -> keys] : \A k \in keys : \E i \in DOMAIN o : o[i] = k}

\* the keys of the usage index: a defaultdict(set) has a key once something was added
UsageKeys(usages) == {k \in DOMAIN usages : usages[k] # {}}

\* run_analysis(view_models, zul_usages): the results of its two passes, one for
\* each order in which the second pass may iterate view_models
run_analysis(vms, usages) ==
    LET first_pass == {AttributeUsages(vms, usages, SeqOf(UsageKeys(usages)))}
    IN  {PropagateAll(marked, order) : marked \in first_pass, order \in Orders(DOMAIN vms)}

(***************************************************************************)
(* get_unused_methods and generate_report.                                  *)
(***************************************************************************)
\* sorted(vm.methods.values(), key=lambda m: m.line), kept when unused
RECURSIVE UnusedByLine(_, _)
UnusedByLine(methods, ignored) ==
    IF methods = {} THEN <<>>
    ELSE LET first == CHOOSE m \in methods : \A o \in methods : m.line <= o.line
         IN  (IF MethodIsUsed(first, ignored) THEN <<>> ELSE <<first.name>>)
             \o UnusedByLine(methods \ {first}, ignored)

\* get_unused_methods without the skip of unused ViewModels
RECURSIVE UnusedMethodsOfAll(_, _, _)
UnusedMethodsOfAll(vms, ignored, fqdns) ==
    IF fqdns = <<>> THEN <<>>
    ELSE LET vm == vms[Head(fqdns)]
             unused_meths == UnusedByLine({vm.methods[i] : i \in DOMAIN vm.methods}, ignored)
             rest == UnusedMethodsOfAll(vms, ignored, Tail(fqdns))
         IN  IF unused_meths # <<>> THEN <<[vm |-> vm.fqdn, unused |-> unused_meths]>> \o rest
             ELSE rest

\* get_unused_methods: a list of (fqdn, names of the unused methods)
RECURSIVE UnusedMethodsOf(_, _, _)
UnusedMethodsOf(vms, ignored, fqdns) ==
    IF fqdns = <<>> THEN <<>>
    ELSE LET vm == vms[Head(fqdns)]
             unused_meths == UnusedByLine({vm.methods[i] : i \in DOMAIN vm.methods}, ignored)
             rest == UnusedMethodsOf(vms, ignored, Tail(fqdns))
         IN  IF ~ViewModelIsUsed(vm, ignored) THEN rest
             ELSE IF unused_meths # <<>> THEN <<[vm |-> vm.fqdn, unused |-> unused_meths]>> \o rest
             ELSE rest

get_unused_methods(vms, ignored) ==
    UnusedMethodsOf(vms, ignored, SortedStrings(DOMAIN vms))

\* the unused_vms list of generate_report
RECURSIVE UnusedViewModels(_, _, _)
UnusedViewModels(vms, ignored, fqdns) ==
    IF fqdns = <<>> THEN <<>>
    ELSE (IF ViewModelIsUsed(vms[Head(fqdns)], ignored) THEN <<>> ELSE <<Head(fqdns)>>)
         \o UnusedViewModels(vms, ignored, Tail(fqdns))

\* generate_report: the two sections of the report
generate_report(vms, ignored) ==
    [unused_vms           |-> UnusedViewModels(vms, ignored, SortedStrings(DOMAIN vms)),
     used_vms_with_issues |-> get_unused_methods(vms, ignored)]

(***************************************************************************)
(* The projects of the model: what analyze_java_files and find_zul_usages   *)
(* hand to the analysis.  Three ViewModels of package p; a class body is    *)
(* the list of its public methods as [name, annotations, line, block].      *)
(***************************************************************************)
AVM == "p.AViewModel"
BVM == "p.BViewModel"
CVM == "p.CViewModel"

MethodDecl(name, annotations, line, block_start_line) ==
    [name |-> name, annotations |-> annotations, line |-> line,
     block_start_line |-> block_start_line]

ClassBodies ==
    { <<>>,
      <<MethodDecl("foo", <<>>, 10, 10)>>,
      <<MethodDecl("run", <<"@Command(\"foo\")">>, 11, 10), MethodDecl("bar", <<>>, 14, 14)>>,
      <<MethodDecl("getFoo", <<>>, 10, 10), MethodDecl("init", <<"@Init">>, 13, 12)>> }

\* the parent classes: AViewModel is a root, the others extend a ViewModel
\* declared before them, a class outside the project, or nothing
Hierarchies ==
    { [a |-> None, b |-> pb, c |-> pc] :
        pb \in {AVM, "p.External"}, pc \in {None, AVM, BVM} }

\* extract_viewmodels_from_ast for one class of package p without imports
BuildViewModel(name, extends, body) ==
    ViewModelInfo(name, "p." \o name, name \o ".java", extends,
                  [i \in DOMAIN body |->
                      MethodInfo(body[i].name, body[i].annotations, body[i].line,
                                 body[i].block_start_line, <<>>, "p", <<>>)])

\* the usage indexes find_zul_usages may return; a bound class is always
\* present among its own identifiers (the existence marker)
UsageFqdns == {AVM, BVM, CVM, "p.Other"}
NoUsages == [f \in UsageFqdns |-> {}]
UsageIndexes ==
    { NoUsages,
      [NoUsages EXCEPT ![BVM] = {BVM, "foo"}],
      [NoUsages EXCEPT ![CVM] = {CVM, "foo"}],
      [NoUsages EXCEPT ![CVM] = {CVM, "bar"}, !["p.Other"] = {"p.Other", "foo"}],
      [NoUsages EXCEPT ![AVM] = {AVM}],
      [NoUsages EXCEPT ![CVM] = {CVM, "Foo", "init"}] }

\* the contents annotations.txt may have
IgnoreLists == { {}, {"@Init"}, {"@In", "@AfterCompose"} }

\* the parsed Java files that use ViewModels
JavaUser1 ==
    [pkg |-> "p", imports |-> <<>>,
     lvds |-> <<[type |-> "BViewModel", names |-> <<"b">>]>>,
     invs |-> <<[qualifier |-> "b", member |-> "foo"]>>,
     crs  |-> <<>>]
JavaUser2 ==
    [pkg |-> "q", imports |-> [CViewModel |-> CVM],
     lvds |-> <<[type |-> "CViewModel", names |-> <<"c", "d">>],
                [type |-> "String", names |-> <<"s">>]>>,
     invs |-> <<[qualifier |-> "d", member |-> "missing"],
                [qualifier |-> "s", member |-> "foo"],
                [qualifier |-> None, member |-> "bar"]>>,
     crs  |-> <<>>]
JavaUser3 ==
    [pkg |-> "p", imports |-> <<>>,
     lvds |-> <<>>,
     invs |-> <<[qualifier |-> "x", member |-> "getFoo"]>>,
     crs  |-> <<"AViewModel", "ArrayList">>]
AstLists ==
    { <<>>, <<JavaUser1>>, <<JavaUser2, JavaUser3>>, <<JavaUser3, JavaUser2, JavaUser1>> }

NoReport == [unused_vms |-> <<None>>, used_vms_with_issues |-> <<>>]

\* the values the variables of the interactive session have outside of it
SessionOff ==
    /\ cache = <<>>
    /\ cache_file = <<>>
    /\ candidates = <<>>
    /\ at = <<0, 0>>
    /\ approved_for_deletion = <<>>
    /\ quit_session = FALSE
    /\ session = "off"

\* the values the variables of find_zul_usages have outside of it
ZulOff ==
    /\ zul_files = <<>>
    /\ ALL_PROJECT_FILES = <<>>
    /\ partial_match = TRUE
    /\ zul_walk = <<>>
    /\ all_usages = <<>>
    /\ visited = {}
    /\ call_stack = <<>>
    /\ zul_status = "off"
    /\ scans = <<>>

\* the values the variables of analyze_java_files have once main() is past it
JavaOff ==
    /\ asts = <<>>
    /\ resolved_constants = <<>>

\* the values the variables of generate_patches have before it is called
PatchOff ==
    /\ source_files = <<>>
    /\ patches = <<>>
    /\ patch_status = "off"

(***************************************************************************)
(* Spec: main() from the built model on.                                    *)
(***************************************************************************)
Init ==
    /\ SessionOff
    /\ JavaOff
    /\ ZulOff
    /\ PatchOff
    /\ \E h \in Hierarchies, ba \in ClassBodies, bb \in ClassBodies, bc \in ClassBodies :
          view_models = [f \in {AVM, BVM, CVM} |->
                            IF f = AVM THEN BuildViewModel("AViewModel", h.a, ba)
                            ELSE IF f = BVM THEN BuildViewModel("BViewModel", h.b, bb)
                            ELSE BuildViewModel("CViewModel", h.c, bc)]
    /\ zul_usages \in UsageIndexes
    /\ IGNORED_ANNOTATIONS \in IgnoreLists
    /\ stage = "indexed"
    /\ runs = 0
    /\ report = NoReport

\* main: analyze_java_usages(asts, vms)
AnalyzeJavaUsages ==
    /\ stage = "indexed"
    /\ \E trees \in AstLists : view_models' = analyze_java_usages(trees, view_models)
    /\ stage' = "java"
    /\ UNCHANGED <<zul_usages, IGNORED_ANNOTATIONS, runs, report>>
    /\ UNCHANGED <<sessionVars, javaVars, zulVars, patchVars>>

\* main: run_analysis(vms, zul_usages), called again up to MaxRuns times
RunAnalysis ==
    /\ stage \in {"java", "analysed"}
    /\ runs < MaxRuns
    /\ view_models' \in run_analysis(view_models, zul_usages)
    /\ stage' = "analysed"
    /\ runs' = runs + 1
    /\ report' = NoReport
    /\ UNCHANGED <<zul_usages, IGNORED_ANNOTATIONS>>
    /\ UNCHANGED <<sessionVars, javaVars, zulVars, patchVars>>

\* main: report = generate_report(vms)
GenerateReport ==
    /\ stage = "analysed"
    /\ report' = generate_report(view_models, IGNORED_ANNOTATIONS)
    /\ UNCHANGED <<view_models, zul_usages, IGNORED_ANNOTATIONS, stage, runs>>
    /\ UNCHANGED <<sessionVars, javaVars, zulVars, patchVars>>

Next ==
    \/ AnalyzeJavaUsages
    \/ RunAnalysis
    \/ GenerateReport

Spec == Init /\ [][Next]_vars

(***************************************************************************)
(* interactive_session.  The session blocks in input(); an action is the    *)
(* code that runs from one call of input() to the next, or to the return.   *)
(***************************************************************************)
\* f"{vm.fqdn}#{meth.name}"
MethodId(fqdn, name) == fqdn \o "#" \o name

\* the loops of interactive_session from method j of candidate i on, up to the
\* next method that is not in the cache: [at, approved, done]
RECURSIVE RunLoops(_, _, _, _, _, _)
RunLoops(cands, decisions, i, j, approved, quit) ==
    IF i > Len(cands) THEN [at |-> <<i, j>>, approved |-> approved, done |-> TRUE]
    ELSE IF j = 1 /\ quit THEN [at |-> <<i, j>>, approved |-> approved, done |-> TRUE]
    ELSE IF j > Len(cands[i].unused) THEN RunLoops(cands, decisions, i + 1, 1, approved, quit)
    ELSE LET method_id == MethodId(cands[i].vm, cands[i].unused[j])
         IN  IF method_id \in DOMAIN decisions
             THEN RunLoops(cands, decisions, i, j + 1,
                           IF decisions[method_id] = "y"
                           THEN Append(approved, <<cands[i].vm, cands[i].unused[j]>>)
                           ELSE approved,
                           quit)
             ELSE [at |-> <<i, j>>, approved |-> approved, done |-> FALSE]

\* list(dict.fromkeys(approved_for_deletion))
RECURSIVE Unique(_)
Unique(list) ==
    IF list = <<>> THEN <<>>
    ELSE LET front == Unique(SubSeq(list, 1, Len(list) - 1))
             last  == list[Len(list)]
         IN  IF \E k \in DOMAIN front : front[k] = last THEN front ELSE Append(front, last)

\* what the answers to input() can be; "EOF" stands for EOFError and KeyboardInterrupt
Answers == {"y", "n", "q", "x", "EOF"}

\* the decision caches found on disk when the session starts
CacheFiles ==
    { <<>>,
      DictPut(DictPut(<<>>, MethodId(AVM, "bar"), "y"), MethodId(BVM, "foo"), "n"),
      DictPut(<<>>, MethodId(BVM, "getFoo"), "y") }

\* the state the session is left in by the loops
Continue(res, decisions, disk, quit) ==
    /\ at' = res.at
    /\ approved_for_deletion' = (IF res.done THEN Unique(res.approved) ELSE res.approved)
    /\ session' = (IF res.done THEN "returned" ELSE "input")
    /\ cache' = decisions
    /\ cache_file' = disk
    /\ quit_session' = quit

\* interactive_session(view_models) up to its first input()
StartSession ==
    /\ session = "off"
    /\ LET cands == get_unused_methods(view_models, IGNORED_ANNOTATIONS)
       IN  /\ candidates' = cands
           /\ \E res \in {RunLoops(cands, cache_file, 1, 1, <<>>, FALSE)} :
                  Continue(res, cache_file, cache_file, FALSE)
    /\ UNCHANGED <<analysisVars, javaVars, zulVars, patchVars>>

\* input() returns (or is interrupted), and the session runs to its next input()
Answer ==
    /\ session = "input"
    /\ \E answer \in Answers :
          LET choice == IF answer = "EOF" THEN "q" ELSE answer
              i == at[1]
              j == at[2]
              method_id == MethodId(candidates[i].vm, candidates[i].unused[j])
          IN  IF choice \in {"y", "n"}
              THEN \E res \in {RunLoops(candidates, DictPut(cache, method_id, choice), i, j + 1,
                                         IF choice = "y"
                                         THEN Append(approved_for_deletion,
                                                     <<candidates[i].vm, candidates[i].unused[j]>>)
                                         ELSE approved_for_deletion,
                                         quit_session)} :
                     \* save_cache writes the dict, or fails with IOError and warns
                     \E disk \in {DictPut(cache, method_id, choice), cache_file} :
                        Continue(res, DictPut(cache, method_id, choice), disk, quit_session)
              ELSE IF choice = "q"
              THEN \E res \in {RunLoops(candidates, cache, i, j + 1,
                                         approved_for_deletion, TRUE)} :
                     Continue(res, cache, cache_file, TRUE)
              ELSE UNCHANGED sessionVars
    /\ UNCHANGED candidates
    /\ UNCHANGED <<analysisVars, javaVars, zulVars, patchVars>>

NextSession ==
    \/ StartSession
    \/ Answer

\* the models a session is started on: every class bound in a template or not,
\* none of its methods used
SessionModels ==
    { [f \in {AVM, BVM, CVM} |->
          [BuildViewModel(SubSeq(f, 3, Len(f)), None, bodies[f])
             EXCEPT !.is_used_in_zul = f \in bound] ] :
        bodies \in [{AVM, BVM, CVM} -> ClassBodies], bound \in {{AVM, BVM}, {AVM, BVM, CVM}} }

InitSession ==
    /\ view_models \in SessionModels
    /\ IGNORED_ANNOTATIONS \in IgnoreLists
    /\ zul_usages = NoUsages
    /\ stage = "analysed"
    /\ runs = 1
    /\ report = NoReport
    /\ cache = <<>>
    /\ cache_file \in CacheFiles
    /\ candidates = <<>>
    /\ at = <<0, 0>>
    /\ approved_for_deletion = <<>>
    /\ quit_session = FALSE
    /\ session = "off"
    /\ JavaOff
    /\ ZulOff
    /\ PatchOff

SpecSession == InitSession /\ [][NextSession]_vars

(***************************************************************************)
(* analyze_java_files.  A parsed file is [path, tree]; a tree is [pkg,      *)
(* imports, classes]: pkg is "" for a file without package declaration,     *)
(* imports the import paths in order, classes what                          *)
(* tree.filter(ClassDeclaration) yields.                                    *)
(***************************************************************************)
\* path.split('.')[-1]
LastSegment(path) == SubSeq(path, LastIndexOf(path, ".") + 1, Len(path))

\* {i.path.split('.')[-1]: i.path for i in tree.imports}
RECURSIVE ImportsDict(_)
ImportsDict(paths) ==
    IF paths = <<>> THEN <<>>
    ELSE DictPut(ImportsDict(SubSeq(paths, 1, Len(paths) - 1)),
                 LastSegment(paths[Len(paths)]), paths[Len(paths)])

\* cls_fqdn / fqdn of a declared class
ClassFqdn(pkg, name) == IF pkg # "" THEN pkg \o "." \o name ELSE name

\* the loop over const.declarators
RECURSIVE ConstantsOfDeclarators(_, _, _)
ConstantsOfDeclarators(constants, cls_fqdn, declarators) ==
    IF declarators = <<>> THEN constants
    ELSE LET declarator == Head(declarators)
         IN  ConstantsOfDeclarators(
                 IF declarator.initializer.node = "Literal"
                 THEN DictPut(constants, cls_fqdn \o "." \o declarator.name,
                              StripChars(declarator.initializer.value, {"\""}))
                 ELSE constants,
                 cls_fqdn, Tail(declarators))

\* the loop over cls.fields
RECURSIVE ConstantsOfFields(_, _, _)
ConstantsOfFields(constants, cls_fqdn, fields) ==
    IF fields = <<>> THEN constants
    ELSE LET const == Head(fields)
             is_string == /\ const.type.node \in {"BasicType", "ReferenceType"}
                          /\ const.type.name = "String"
         IN  ConstantsOfFields(
                 IF {"public", "static", "final"} \subseteq const.modifiers /\ is_string
                 THEN ConstantsOfDeclarators(constants, cls_fqdn, const.declarators)
                 ELSE constants,
                 cls_fqdn, Tail(fields))

\* the loop over the classes of the tree
RECURSIVE ConstantsOfClasses(_, _, _)
ConstantsOfClasses(constants, pkg, classes) ==
    IF classes = <<>> THEN constants
    ELSE ConstantsOfClasses(
             ConstantsOfFields(constants, ClassFqdn(pkg, Head(classes).name),
                               Head(classes).fields),
             pkg, Tail(classes))

\* extract_constants_from_ast(tree), writing the global resolved_constants
extract_constants_from_ast(constants, tree) ==
    ConstantsOfClasses(constants, tree.pkg, tree.classes)

\* [a.strip() for a in raw_anns.split('\n') if a.strip().startswith('@')]
RECURSIVE AnnotationLines(_)
AnnotationLines(raw_lines) ==
    IF raw_lines = <<>> THEN <<>>
    ELSE LET a == StripChars(Head(raw_lines), Whitespace)
         IN  IF StartsWith(a, "@") THEN <<a>> \o AnnotationLines(Tail(raw_lines))
             ELSE AnnotationLines(Tail(raw_lines))

\* vm_info.methods[meth.name] = ...: a dict keeps the place of a key it has
PutMethod(methods, meth) ==
    IF \E i \in DOMAIN methods : methods[i].name = meth.name
    THEN [i \in DOMAIN methods |-> IF methods[i].name = meth.name THEN meth ELSE methods[i]]
    ELSE Append(methods, meth)

\* the loop over cls.methods
RECURSIVE MethodsOfClass(_, _, _, _, _)
MethodsOfClass(methods, decls, imports, pkg, constants) ==
    IF decls = <<>> THEN methods
    ELSE LET meth == Head(decls)
             anns == IF meth.raw_anns # <<>> THEN AnnotationLines(meth.raw_anns) ELSE <<>>
             block_start_line == IF meth.raw_anns # <<>> THEN meth.annotation_line
                                 ELSE meth.line
         IN  MethodsOfClass(
                 IF "public" \in meth.modifiers
                 THEN PutMethod(methods, MethodInfo(meth.name, anns, meth.line,
                                                    block_start_line, imports, pkg, constants))
                 ELSE methods,
                 Tail(decls), imports, pkg, constants)

\* the loop over the classes of the tree
RECURSIVE ViewModelsOfClasses(_, _, _, _, _)
ViewModelsOfClasses(vms, classes, tree, file_path, constants) ==
    IF classes = <<>> THEN vms
    ELSE LET cls == Head(classes)
             imports == ImportsDict(tree.imports)
             fqdn == ClassFqdn(tree.pkg, cls.name)
             ext_fqdn == IF cls.extends # None
                         THEN DictGet(imports, cls.extends, tree.pkg \o "." \o cls.extends)
                         ELSE None
         IN  ViewModelsOfClasses(
                 IF EndsWith(cls.name, "ViewModel")
                 THEN DictPut(vms, fqdn,
                              ViewModelInfo(cls.name, fqdn, file_path, ext_fqdn,
                                  MethodsOfClass(<<>>, cls.methods, imports, tree.pkg,
                                                 constants)))
                 ELSE vms,
                 Tail(classes), tree, file_path, constants)

\* extract_viewmodels_from_ast(tree, lines, file_path), reading resolved_constants
extract_viewmodels_from_ast(tree, file_path, constants) ==
    ViewModelsOfClasses(<<>>, tree.classes, tree, file_path, constants)

\* vms.update(d)
DictUpdate(vms, d) ==
    [k \in DOMAIN vms \cup DOMAIN d |-> IF k \in DOMAIN d THEN d[k] ELSE vms[k]]

\* analyze_java_files, first loop: extract_constants_from_ast of every parsed file
RECURSIVE FirstLoop(_, _)
FirstLoop(constants, files) ==
    IF files = <<>> THEN constants
    ELSE FirstLoop(extract_constants_from_ast(constants, Head(files).tree), Tail(files))

\* analyze_java_files, second loop: vms.update(extract_viewmodels_from_ast(...))
RECURSIVE SecondLoop(_, _, _)
SecondLoop(vms, files, constants) ==
    IF files = <<>> THEN vms
    ELSE SecondLoop(DictUpdate(vms, extract_viewmodels_from_ast(Head(files).tree,
                                                                Head(files).path, constants)),
                    Tail(files), constants)

\* the Java sources of the model: a class SomeClass declaring CMD_NAME, and a
\* ViewModel whose commands refer to it
StringType == [node |-> "ReferenceType", name |-> "String"]
Literal(value) == [node |-> "Literal", value |-> value]
FieldDecl(modifiers, type, name, initializer) ==
    [modifiers |-> modifiers, type |-> type,
     declarators |-> <<[name |-> name, initializer |-> initializer]>>]

ConstantFields ==
    { FieldDecl({"public", "static", "final"}, StringType, "CMD_NAME", Literal("\"doThing\"")),
      FieldDecl({"public", "static", "final"}, StringType, "CMD_NAME", Literal("\"other\"")),
      FieldDecl({"static", "final"}, StringType, "CMD_NAME", Literal("\"doThing\"")),
      FieldDecl({"public", "static", "final"}, StringType, "CMD_NAME",
                [node |-> "BinaryOperation", value |-> None]),
      FieldDecl({"public", "static", "final"}, [node |-> "BasicType", name |-> "int"],
                "CMD_NAME", Literal("7")) }

ConstantPackages == {"", "p", "q"}
ViewModelPackages == {"", "p"}
ImportLists == { <<>>, <<"q.SomeClass">>, <<"java.util.List", "q.SomeClass">> }

JavaMethod(name, modifiers, raw_anns, line) ==
    [name |-> name, modifiers |-> modifiers, raw_anns |-> raw_anns,
     line |-> line, annotation_line |-> line - Len(raw_anns) + 1]

\* the source text from the first annotation of a method to the method's position
AnnotationTexts ==
    { <<"@Command(SomeClass.CMD_NAME)", "    ">>,
      <<"@Command(q.SomeClass.CMD_NAME)", "    ">>,
      <<"@Override", "    @GlobalCommand( SomeClass.CMD_NAME )", "    ">>,
      <<"@Command(SomeClass.MISSING)", "    ">> }

SomeClassFile(pkg, field) ==
    [path |-> "SomeClass.java",
     tree |-> [pkg |-> pkg, imports |-> <<>>,
               classes |-> <<[name |-> "SomeClass", extends |-> None,
                              fields |-> <<field>>, methods |-> <<>>]>>]]

MyViewModelFile(pkg, imports, raw_anns) ==
    [path |-> "MyViewModel.java",
     tree |-> [pkg |-> pkg, imports |-> imports,
               classes |-> <<[name |-> "MyViewModel", extends |-> None, fields |-> <<>>,
                              methods |-> <<JavaMethod("doThing", {"public"},
                                                       <<"@Command(\"doThing\")", "    ">>, 12),
                                            JavaMethod("viaConstant", {"public"}, raw_anns, 20),
                                            JavaMethod("helper", {"private"}, <<>>, 25)>>]>>]]

\* analyze_java_files: the loop calling extract_constants_from_ast
ExtractConstants ==
    /\ stage = "files"
    /\ resolved_constants' = FirstLoop(resolved_constants, asts)
    /\ stage' = "constants"
    /\ UNCHANGED <<view_models, zul_usages, IGNORED_ANNOTATIONS, runs, report, asts>>
    /\ UNCHANGED <<sessionVars, zulVars, patchVars>>

\* analyze_java_files: the loop calling extract_viewmodels_from_ast
ExtractViewModels ==
    /\ stage = "constants"
    /\ view_models' = SecondLoop(<<>>, asts, resolved_constants)
    /\ stage' = "viewmodels"
    /\ UNCHANGED <<zul_usages, IGNORED_ANNOTATIONS, runs, report>>
    /\ UNCHANGED <<sessionVars, javaVars, zulVars, patchVars>>

NextConst ==
    \/ ExtractConstants
    \/ ExtractViewModels

InitConst ==
    /\ SessionOff
    /\ ZulOff
    /\ PatchOff
    /\ \E cp \in ConstantPackages, field \in ConstantFields, vp \in ViewModelPackages,
          imports \in ImportLists, raw_anns \in AnnotationTexts :
          asts \in { <<SomeClassFile(cp, field), MyViewModelFile(vp, imports, raw_anns)>>,
                     <<MyViewModelFile(vp, imports, raw_anns), SomeClassFile(cp, field)>> }
    /\ resolved_constants = <<>>
    /\ view_models = <<>>
    /\ zul_usages = NoUsages
    /\ IGNORED_ANNOTATIONS = {}
    /\ stage = "files"
    /\ runs = 0
    /\ report = NoReport

SpecConst == InitConst /\ [][NextConst]_vars

(***************************************************************************)
(* find_zul_usages: strings, regular expressions and paths.                 *)
(***************************************************************************)
\* whether p occurs in s at index i
MatchesAt(s, i, p) ==
    /\ i >= 1
    /\ i + Len(p) - 1 <= Len(s)
    /\ SubSeq(s, i, i + Len(p) - 1) = p

\* str.find(p, from) + 1: the least index >= from where p occurs in s, 0 when absent
IndexOf(s, p, from) ==
    LET idx == {i \in from..Len(s) : MatchesAt(s, i, p)}
    IN  IF idx = {} THEN 0 ELSE Min(idx)

\* re.search(prefix ([^']*) '\) , s): <<group(1)>> of the leftmost match, <<>> for none
RECURSIVE SearchQuoted(_, _, _)
SearchQuoted(s, prefix, from) ==
    LET i == IndexOf(s, prefix, from)
        q == IndexOf(s, "'", i + Len(prefix))
    IN  IF i = 0 THEN <<>>
        ELSE IF q # 0 /\ MatchesAt(s, q + 1, ")")
             THEN <<SubSeq(s, i + Len(prefix), q - 1)>>
             ELSE SearchQuoted(s, prefix, i + 1)

\* ZUL_VM_ID_REGEX.search(value), ZUL_VM_INIT_REGEX.search(value)
ZUL_VM_ID_REGEX(value) == SearchQuoted(value, "@id('", 1)
ZUL_VM_INIT_REGEX(value) == SearchQuoted(value, "@init('", 1)

Quotes == {"'", "\""}
CommandOpeners == {"@command(", "@global-command("}

\* COMMAND_REGEX matched at index i of s: <<group(1), index of the last character>>,
\* <<>> when it does not match there
CommandAt(s, i) ==
    IF \A p \in CommandOpeners : ~MatchesAt(s, i, p) THEN <<>>
    ELSE LET p == CHOOSE o \in CommandOpeners : MatchesAt(s, i, o)
             open == i + Len(p)
             closing == {q \in (open + 1)..Len(s) : CharAt(s, q) \in Quotes}
         IN  IF open > Len(s) \/ CharAt(s, open) \notin Quotes \/ closing = {} THEN <<>>
             ELSE LET q == Min(closing)
                  IN  IF q < Len(s) /\ CharAt(s, q + 1) \in {",", ")"}
                      THEN <<SubSeq(s, open + 1, q - 1), q + 1>>
                      ELSE <<>>

\* COMMAND_REGEX.findall(s) from index i on
RECURSIVE CommandsFrom(_, _)
CommandsFrom(s, i) ==
    LET at_sign == IndexOf(s, "@", i)
    IN  IF at_sign = 0 THEN <<>>
        ELSE LET m == CommandAt(s, at_sign)
             IN  IF m = <<>> THEN CommandsFrom(s, at_sign + 1)
                 ELSE <<m[1]>> \o CommandsFrom(s, m[2] + 1)

COMMAND_REGEX(s) == CommandsFrom(s, 1)

\* [a-zA-Z0-9_]
WordChars ==
    {CharAt(LowerCase, i) : i \in 1..Len(LowerCase)}
      \cup {CharAt(UpperCase, i) : i \in 1..Len(UpperCase)}
      \cup {"0", "1", "2", "3", "4", "5", "6", "7", "8", "9", "_"}

\* the last index of the run of word characters that starts at i
RECURSIVE RunEnd(_, _)
RunEnd(s, i) ==
    IF i < Len(s) /\ CharAt(s, i + 1) \in WordChars THEN RunEnd(s, i + 1) ELSE i

\* MEMBER_ACCESS_REGEX.findall(s) from index i on: the pairs <<alias, member>>
RECURSIVE MemberAccessFrom(_, _)
MemberAccessFrom(s, i) ==
    IF i > Len(s) THEN <<>>
    ELSE IF CharAt(s, i) \notin WordChars THEN MemberAccessFrom(s, i + 1)
    ELSE LET e == RunEnd(s, i)
         IN  IF e + 2 <= Len(s) /\ CharAt(s, e + 1) = "." /\ CharAt(s, e + 2) \in WordChars
             THEN LET f == RunEnd(s, e + 2)
                  IN  <<<<SubSeq(s, i, e), SubSeq(s, e + 2, f)>>>> \o MemberAccessFrom(s, f + 1)
             ELSE MemberAccessFrom(s, e + 1)

MEMBER_ACCESS_REGEX(s) == MemberAccessFrom(s, 1)

\* re.sub(r'\$\{.*?\}', '', src)
RECURSIVE RemovePlaceholders(_)
RemovePlaceholders(src) ==
    LET open == IndexOf(src, "${", 1)
        close == IndexOf(src, "}", open + 2)
    IN  IF open = 0 \/ close = 0 THEN src
        ELSE SubSeq(src, 1, open - 1) \o RemovePlaceholders(SubSeq(src, close + 1, Len(src)))

\* str.lstrip('/')
RECURSIVE LStripSlash(_)
LStripSlash(s) == IF StartsWith(s, "/") THEN LStripSlash(SubSeq(s, 2, Len(s))) ELSE s

\* s.split('/')
RECURSIVE SplitPath(_)
SplitPath(s) ==
    LET slash == IndexOf(s, "/", 1)
    IN  IF slash = 0 THEN <<s>>
        ELSE <<SubSeq(s, 1, slash - 1)>> \o SplitPath(SubSeq(s, slash + 1, Len(s)))

\* '/'.join(segments)
RECURSIVE JoinPath(_)
JoinPath(segments) ==
    IF segments = <<>> THEN ""
    ELSE IF Len(segments) = 1 THEN segments[1]
    ELSE segments[1] \o "/" \o JoinPath(Tail(segments))

\* the loop of posixpath.normpath over the components of a path
RECURSIVE NormComponents(_, _, _)
NormComponents(comps, new_comps, absolute) ==
    IF comps = <<>> THEN new_comps
    ELSE LET comp == Head(comps)
         IN  NormComponents(Tail(comps),
                 IF comp \in {"", "."} THEN new_comps
                 ELSE IF comp # ".." THEN Append(new_comps, comp)
                 ELSE IF new_comps # <<>> /\ new_comps[Len(new_comps)] # ".."
                      THEN SubSeq(new_comps, 1, Len(new_comps) - 1)
                 ELSE IF absolute THEN new_comps
                 ELSE Append(new_comps, comp),
                 absolute)

\* os.path.normpath(path), for paths that do not start with two slashes
normpath(path) ==
    LET absolute == StartsWith(path, "/")
        joined == JoinPath(NormComponents(SplitPath(path), <<>>, absolute))
    IN  IF absolute THEN "/" \o joined
        ELSE IF joined = "" THEN "." ELSE joined

\* os.path.abspath(path) of an absolute path
abspath(path) == normpath(path)

\* os.path.dirname(path)
dirname(path) ==
    LET slash == LastIndexOf(path, "/")
        head == SubSeq(path, 1, slash)
    IN  IF slash = 0 THEN ""
        ELSE IF \A i \in 1..Len(head) : CharAt(head, i) = "/" THEN head
        ELSE SubSeq(path, 1, slash - 1)

\* os.path.join(a, b)
PathJoin(a, b) ==
    IF StartsWith(b, "/") THEN b
    ELSE IF a = "" \/ EndsWith(a, "/") THEN a \o b
    ELSE a \o "/" \o b

(***************************************************************************)
(* find_zul_usages_recursive.  A template file is [parses, elems]; elems is *)
(* xml_root.iter(): the elements in document order, each [tag, parent,      *)
(* attrib, text], parent being the index of the parent element and 0 for    *)
(* the root, attrib the <<name, value>> pairs in order.  A context is <<>>  *)
(* for None and <<map>> for a dict.                                         *)
(***************************************************************************)
Element(tag, parent, attrib, text) ==
    [tag |-> tag, parent |-> parent, attrib |-> attrib, text |-> text]

\* elem.attrib.get(name)
AttribGet(elem, name) ==
    LET hits == {i \in DOMAIN elem.attrib : elem.attrib[i][1] = name}
    IN  IF hits = {} THEN None ELSE elem.attrib[Min(hits)][2]

\* the truth value of a str or None
Truthy(value) == value \notin {None, ""}

\* the truth value of a context: neither None nor an empty dict
ContextTruthy(ctx) == ctx # <<>> /\ DOMAIN ctx[1] # {}

\* the first loop over xml_root.iter(): [local_vm_map, has_local_vm]
RECURSIVE LocalVmMap(_, _, _)
LocalVmMap(elems, e, acc) ==
    IF e > Len(elems) THEN acc
    ELSE LET vm_attrib == AttribGet(elems[e], "viewModel")
             id_m == ZUL_VM_ID_REGEX(vm_attrib)
             init_m == ZUL_VM_INIT_REGEX(vm_attrib)
         IN  LocalVmMap(elems, e + 1,
                 IF ~Truthy(vm_attrib) THEN acc
                 ELSE [local_vm_map |-> IF id_m # <<>> /\ init_m # <<>>
                                        THEN DictPut(acc.local_vm_map, id_m[1], init_m[1])
                                        ELSE acc.local_vm_map,
                       has_local_vm |-> TRUE])

\* all_usages[fqdn].add(fqdn) of the first loop, as pairs <<fqdn, identifier>>
ExistenceMarkers(elems) ==
    { <<ZUL_VM_INIT_REGEX(AttribGet(elems[e], "viewModel"))[1],
        ZUL_VM_INIT_REGEX(AttribGet(elems[e], "viewModel"))[1]>> :
        e \in { d \in DOMAIN elems :
                  /\ Truthy(AttribGet(elems[d], "viewModel"))
                  /\ ZUL_VM_ID_REGEX(AttribGet(elems[d], "viewModel")) # <<>>
                  /\ ZUL_VM_INIT_REGEX(AttribGet(elems[d], "viewModel")) # <<>> } }

\* context_for_this_file with the inherited context merged into the local one
ContextMerged(local, parent_context) ==
    IF local.has_local_vm
    THEN <<[alias \in DOMAIN local.local_vm_map
                      \cup (IF parent_context = <<>> THEN {} ELSE DOMAIN parent_context[1]) |->
              IF alias \in DOMAIN local.local_vm_map THEN local.local_vm_map[alias]
              ELSE parent_context[1][alias]]>>
    ELSE parent_context

\* context_for_this_file = local_vm_map if has_local_vm else parent_context
ContextForThisFile(local, parent_context) ==
    IF local.has_local_vm THEN <<local.local_vm_map>> ELSE parent_context

\* the while/else of the command scan from element curr: the class the command
\* is added to, None when it is added to none
RECURSIVE CommandContext(_, _, _)
CommandContext(elems, curr, ctx) ==
    IF elems[curr].parent # 0
    THEN LET vm_attrib == AttribGet(elems[curr], "viewModel")
             id_m == ZUL_VM_ID_REGEX(vm_attrib)
         IN  IF /\ Truthy(vm_attrib)
                /\ id_m # <<>>
                /\ ContextTruthy(ctx)
                /\ id_m[1] \in DOMAIN ctx[1]
             THEN ctx[1][id_m[1]]
             ELSE CommandContext(elems, elems[curr].parent, ctx)
    ELSE IF ContextTruthy(ctx) /\ "vm" \in DOMAIN ctx[1] THEN ctx[1]["vm"]
    ELSE None

\* the pairs <<fqdn, member>> of the member accesses whose alias is in the context
MemberUsages(members, ctx) ==
    { <<ctx[1][members[m][1]], members[m][2]>> :
        m \in { n \in DOMAIN members : members[n][1] \in DOMAIN ctx[1] } }

\* the scan of the attributes of element e: the pairs <<fqdn, identifier>> added
AttributeScan(elems, e, ctx) ==
    UNION { UNION { { <<target, cmds[c]>> : c \in {d \in DOMAIN cmds : target # None} }
                      \cup (IF ContextTruthy(ctx) THEN MemberUsages(members, ctx) ELSE {}) :
                    cmds \in {COMMAND_REGEX(elems[e].attrib[a][2])},
                    members \in {MEMBER_ACCESS_REGEX(elems[e].attrib[a][2])},
                    target \in {CommandContext(elems, e, ctx)} } :
            a \in DOMAIN elems[e].attrib }

\* whether element a is an ancestor of element d
RECURSIVE IsAncestor(_, _, _)
IsAncestor(elems, a, d) ==
    /\ elems[d].parent # 0
    /\ \/ elems[d].parent = a
       \/ IsAncestor(elems, a, elems[d].parent)

\* scan_text of element e: its text and the text of its first zscript descendant
ScanText(elems, e) ==
    LET zscripts == {d \in DOMAIN elems : elems[d].tag = "zscript" /\ IsAncestor(elems, e, d)}
    IN  elems[e].text \o (IF zscripts = {} THEN "" ELSE elems[Min(zscripts)].text)

\* the member accesses the text scan of element e goes through
TextMembers(elems, e) ==
    IF StripChars(ScanText(elems, e), Whitespace) = "" THEN <<>>
    ELSE MEMBER_ACCESS_REGEX(ScanText(elems, e))

\* the second loop over xml_root.iter() from element e on: [added, raised];
\* "alias in context_for_this_file" raises TypeError when the context is None
RECURSIVE ScanElements(_, _, _, _)
ScanElements(elems, e, ctx, added) ==
    IF e > Len(elems) THEN [added |-> added, raised |-> FALSE]
    ELSE LET members == TextMembers(elems, e)
             from_attributes == added \cup AttributeScan(elems, e, ctx)
         IN  IF members # <<>> /\ ctx = <<>>
             THEN [added |-> from_attributes, raised |-> TRUE]
             ELSE ScanElements(elems, e + 1, ctx,
                      from_attributes
                         \cup (IF members = <<>> THEN {} ELSE MemberUsages(members, ctx)))

\* all_usages after adding the pairs <<fqdn, identifier>> (a defaultdict of sets)
AddAll(usages, added) ==
    [fqdn \in DOMAIN usages \cup {pair[1] : pair \in added} |->
        DictGet(usages, fqdn, {}) \cup {pair[2] : pair \in {p \in added : p[1] = fqdn}}]

\* the files of ALL_PROJECT_FILES whose name is the static part
RECURSIVE DynamicMatchesExact(_, _)
DynamicMatchesExact(static_part, files) ==
    IF files = <<>> THEN <<>>
    ELSE (IF LastSegment(Head(files)) = static_part \/ Head(files) = static_part
          THEN <<Head(files)>> ELSE <<>>)
            \o DynamicMatchesExact(static_part, Tail(files))

\* the files of ALL_PROJECT_FILES with proj_file.endswith(static_part), in order
RECURSIVE DynamicMatches(_, _)
DynamicMatches(static_part, files) ==
    IF files = <<>> THEN <<>>
    ELSE (IF EndsWith(Head(files), static_part) THEN <<Head(files)>> ELSE <<>>)
            \o DynamicMatches(static_part, Tail(files))

\* the recursive calls one include element makes: [path, dynamic] in order
IncludeCalls(src, file_path, webapp_root, partial, files) ==
    IF ~Truthy(src) THEN <<>>
    ELSE IF partial /\ IndexOf(src, "${", 1) # 0
    THEN LET matches == DynamicMatches(LStripSlash(RemovePlaceholders(src)), files)
         IN  [k \in DOMAIN matches |-> [path |-> matches[k], dynamic |-> TRUE]]
    ELSE <<[path |-> normpath(IF StartsWith(src, "/")
                              THEN PathJoin(webapp_root, LStripSlash(src))
                              ELSE PathJoin(dirname(file_path), src)),
            dynamic |-> FALSE]>>

\* the loop over xml_root.iter('include') from element e on: the recursive calls
\* it makes, in order (ALL_PROJECT_FILES does not change during the scan)
RECURSIVE CallsOf(_, _, _, _, _, _)
CallsOf(elems, e, file_path, webapp_root, partial, files) ==
    IF e > Len(elems) THEN <<>>
    ELSE (IF elems[e].tag = "include"
          THEN IncludeCalls(AttribGet(elems[e], "src"), file_path, webapp_root, partial, files)
          ELSE <<>>)
            \o CallsOf(elems, e + 1, file_path, webapp_root, partial, files)

\* the webapp root find_zul_usages finds under the project path
WebappRoot == "/app/src/main/webapp"

\* find_zul_usages_recursive(file_path, ..., parent_context, visited) up to its first
\* recursive call or its return; stack holds the frames of its callers, includer
\* is the file of the calling frame (None when find_zul_usages calls)
Enter(file_path, parent_context, includer, dynamic, vis, stack) ==
    LET abs_path == abspath(file_path)
    IN  IF abs_path \in vis
        THEN /\ visited' = vis
             /\ call_stack' = stack
             /\ UNCHANGED <<all_usages, scans, zul_status>>
        ELSE IF file_path \notin DOMAIN zul_files \/ ~zul_files[file_path].parses
        THEN /\ visited' = vis \cup {abs_path}
             /\ call_stack' = stack
             /\ UNCHANGED <<all_usages, scans, zul_status>>
        ELSE \E elems \in {zul_files[file_path].elems} :
             \E local \in {LocalVmMap(elems, 1, [local_vm_map |-> <<>>, has_local_vm |-> FALSE])} :
             \E context_for_this_file \in {ContextForThisFile(local, parent_context)} :
             \E body \in {ScanElements(elems, 1, context_for_this_file,
                                       ExistenceMarkers(elems))} :
                /\ visited' = vis \cup {abs_path}
                /\ all_usages' = AddAll(all_usages, body.added)
                /\ scans' = Append(scans,
                              [file_path |-> file_path,
                               top |-> IF stack = <<>> THEN file_path ELSE stack[1].file_path,
                               includer |-> includer,
                               dynamic |-> dynamic,
                               parent_context |-> parent_context,
                               context_for_this_file |-> context_for_this_file,
                               added |-> body.added,
                               raised |-> body.raised])
                /\ IF body.raised
                   THEN /\ call_stack' = <<>>
                        /\ zul_status' = "raised"
                   ELSE /\ call_stack' =
                             Append(stack,
                                [file_path |-> file_path,
                                 context_for_this_file |-> context_for_this_file,
                                 calls |-> CallsOf(elems, 1, file_path, WebappRoot,
                                                   partial_match, ALL_PROJECT_FILES)])
                        /\ zul_status' = zul_status

\* find_zul_usages: the next file of os.walk(webapp_root), a traversal of its own
ScanTopLevel ==
    /\ zul_status = "running"
    /\ call_stack = <<>>
    /\ zul_walk # <<>>
    /\ Enter(Head(zul_walk), <<>>, None, FALSE, {}, <<>>)
    /\ zul_walk' = Tail(zul_walk)
    /\ UNCHANGED <<zul_files, ALL_PROJECT_FILES, partial_match>>
    /\ UNCHANGED <<analysisVars, sessionVars, javaVars, patchVars>>

\* the next recursive call of the innermost find_zul_usages_recursive
Include ==
    /\ zul_status = "running"
    /\ call_stack # <<>>
    /\ call_stack[Len(call_stack)].calls # <<>>
    /\ LET frame == call_stack[Len(call_stack)]
           call == Head(frame.calls)
       IN  Enter(call.path, frame.context_for_this_file, frame.file_path, call.dynamic,
                 visited,
                 [call_stack EXCEPT ![Len(call_stack)].calls = Tail(frame.calls)])
    /\ UNCHANGED <<zul_files, ALL_PROJECT_FILES, partial_match, zul_walk>>
    /\ UNCHANGED <<analysisVars, sessionVars, javaVars, patchVars>>

\* the innermost find_zul_usages_recursive returns after its last include
Return ==
    /\ zul_status = "running"
    /\ call_stack # <<>>
    /\ call_stack[Len(call_stack)].calls = <<>>
    /\ call_stack' = SubSeq(call_stack, 1, Len(call_stack) - 1)
    /\ UNCHANGED <<zul_files, ALL_PROJECT_FILES, partial_match, zul_walk, all_usages,
                   visited, zul_status, scans>>
    /\ UNCHANGED <<analysisVars, sessionVars, javaVars, patchVars>>

\* find_zul_usages returns all_usages; main: zul_usages = find_zul_usages(...)
FindZulUsagesReturn ==
    /\ zul_status = "running"
    /\ call_stack = <<>>
    /\ zul_walk = <<>>
    /\ zul_status' = "done"
    /\ zul_usages' = all_usages
    /\ UNCHANGED <<view_models, IGNORED_ANNOTATIONS, stage, runs, report>>
    /\ UNCHANGED <<zul_files, ALL_PROJECT_FILES, partial_match, zul_walk, all_usages,
                   visited, call_stack, scans>>
    /\ UNCHANGED <<sessionVars, javaVars, patchVars>>

NextZul ==
    \/ ScanTopLevel
    \/ Include
    \/ Return
    \/ FindZulUsagesReturn

\* the template files of the model
IndexZul == WebappRoot \o "/index.zul"
PanelZul == WebappRoot \o "/x/panel.zul"
TopPanelZul == WebappRoot \o "/y/toppanel.zul"

Binding(alias, fqdn) == "@id('" \o alias \o "') @init('" \o fqdn \o "')"
Parsed(elems) == [parses |-> TRUE, elems |-> elems]
Unparseable == [parses |-> FALSE, elems |-> <<>>]

IncludeSources ==
    {"", "x/panel.zul", "/x/panel.zul", "${tpl}/panel.zul", "index.zul"}

\* index.zul: a root binding vm and an inner binding other; no binding at all;
\* a root binding under the alias w
IndexBound(src) ==
    Parsed(<<Element("window", 0, <<<<"viewModel", Binding("vm", "p.AVM")>>>>, ""),
             Element("div", 1, <<<<"viewModel", Binding("other", "p.OVM")>>>>, ""),
             Element("button", 2, <<<<"onClick", "@command('save')">>,
                                    <<"label", "@load(other.caption)">>>>, ""),
             Element("include", 1, <<<<"src", src>>>>, "")>>)
IndexUnbound(src) ==
    Parsed(<<Element("zk", 0, <<>>, ""),
             Element("label", 1, <<<<"value", "@load(vm.title)">>>>, ""),
             Element("include", 1, <<<<"src", src>>>>, "")>>)
IndexRootAlias(src) ==
    Parsed(<<Element("window", 0, <<<<"viewModel", Binding("w", "p.AVM")>>>>, ""),
             Element("button", 1, <<<<"onClick", "@command('save')">>>>, ""),
             Element("label", 1, <<<<"value", "@load(w.title)">>>>, "Title"),
             Element("include", 1, <<<<"src", src>>>>, "")>>)

IndexFiles ==
    {IndexBound(src) : src \in IncludeSources}
       \cup {IndexUnbound(src) : src \in IncludeSources}
       \cup {IndexRootAlias(src) : src \in IncludeSources}

\* x/panel.zul: without binding; with its own binding of vm; with an expression in
\* element text; with a viewModel attribute that binds nothing; including index.zul,
\* without and with an expression in element text
PanelPlain ==
    Parsed(<<Element("div", 0, <<>>, ""),
             Element("label", 1, <<<<"value", "@load(vm.name)">>>>, ""),
             Element("button", 1, <<<<"onClick", "@command('go')">>>>, "")>>)
PanelOwn ==
    Parsed(<<Element("window", 0, <<<<"viewModel", Binding("vm", "p.BVM")>>>>, ""),
             Element("label", 1, <<<<"value", "@load(vm.childOnly)">>>>, ""),
             Element("label", 1, <<<<"value", "@load(other.hidden)">>>>, ""),
             Element("button", 1, <<<<"onClick", "@global-command(\"go\")">>>>, "")>>)
PanelText ==
    Parsed(<<Element("div", 0, <<>>, ""),
             Element("label", 1, <<>>, "${vm.text}")>>)
PanelMalformed ==
    Parsed(<<Element("window", 0, <<<<"viewModel", "@id('vm')">>>>, ""),
             Element("label", 1, <<<<"value", "@load(vm.name)">>>>, "")>>)
PanelCycle ==
    Parsed(<<Element("div", 0, <<>>, ""),
             Element("label", 1, <<<<"value", "@load(vm.name)">>>>, ""),
             Element("include", 1, <<<<"src", "../index.zul">>>>, "")>>)

PanelCycleText ==
    Parsed(<<Element("div", 0, <<>>, ""),
             Element("label", 1, <<>>, "${vm.name}"),
             Element("include", 1, <<<<"src", "../index.zul">>>>, "")>>)

PanelFiles ==
    {PanelPlain, PanelOwn, PanelText, PanelMalformed, PanelCycle, PanelCycleText, Unparseable}

\* y/toppanel.zul: without binding; with its own binding, including x/panel.zul
TopPanelPlain ==
    Parsed(<<Element("div", 0, <<>>, ""),
             Element("label", 1, <<<<"value", "@bind(vm.top)">>>>, "")>>)
TopPanelOwn ==
    Parsed(<<Element("window", 0, <<<<"viewModel", Binding("vm", "p.TVM")>>>>, ""),
             Element("label", 1, <<<<"value", "@load(vm.top)">>>>, ""),
             Element("include", 1, <<<<"src", "/x/panel.zul">>>>, "")>>)

TopPanelFiles == {TopPanelPlain, TopPanelOwn}

\* what the project holds, and the order os.walk lists it in: the files of a
\* directory before its subdirectories, the subdirectories in any order
Projects ==
    { [files |-> (IndexZul :> index @@ PanelZul :> panel),
       walk |-> <<IndexZul, PanelZul>>] :
        index \in IndexFiles, panel \in PanelFiles }
    \cup
    { [files |-> (IndexZul :> index @@ PanelZul :> panel @@ TopPanelZul :> top),
       walk |-> walk] :
        index \in IndexFiles, panel \in PanelFiles, top \in TopPanelFiles,
        walk \in {<<IndexZul, PanelZul, TopPanelZul>>, <<IndexZul, TopPanelZul, PanelZul>>} }

InitZul ==
    /\ SessionOff
    /\ JavaOff
    /\ PatchOff
    /\ \E project \in Projects :
          /\ zul_files = project.files
          /\ ALL_PROJECT_FILES = project.walk
          /\ zul_walk = project.walk
    /\ partial_match \in BOOLEAN
    /\ all_usages = <<>>
    /\ visited = {}
    /\ call_stack = <<>>
    /\ zul_status = "running"
    /\ scans = <<>>
    /\ view_models = <<>>
    /\ zul_usages = <<>>
    /\ IGNORED_ANNOTATIONS = {}
    /\ stage = "files"
    /\ runs = 0
    /\ report = NoReport

SpecZul == InitZul /\ [][NextZul]_vars

(***************************************************************************)
(* generate_patches.  A source file is the list of its lines as readlines() *)
(* gives them (without the line ends); line indexes are 0-based as in the   *)
(* code, so line n of the file is lines[n] of the model at index n - 1.     *)
(***************************************************************************)
\* line.count(c)
Count(line, c) == Cardinality({i \in 1..Len(line) : CharAt(line, i) = c})

\* the for loop of find_method_end_line from index i on
RECURSIVE ScanBraces(_, _, _, _, _)
ScanBraces(lines, i, brace_count, in_block, start_line_idx) ==
    IF i >= Len(lines) THEN start_line_idx + 1
    ELSE LET line == lines[i + 1]
             now_in_block == in_block \/ Count(line, "{") > 0
             count == IF now_in_block
                      THEN brace_count + Count(line, "{") - Count(line, "}")
                      ELSE brace_count
         IN  IF now_in_block /\ count = 0 THEN i + 1
             ELSE ScanBraces(lines, i + 1, count, now_in_block, start_line_idx)

\* find_method_end_line(lines, start_line_idx): a 1-based line number
find_method_end_line(lines, start_line_idx) ==
    ScanBraces(lines, start_line_idx, 0, FALSE, start_line_idx)

\* the (vm, meth) tuple an entry <<fqdn, method name>> of the approved list stands for
ApprovedMethod(vms, entry) ==
    LET vm == vms[entry[1]]
    IN  [file_path |-> vm.file_path,
         meth |-> vm.methods[CHOOSE i \in DOMAIN vm.methods : vm.methods[i].name = entry[2]]]

\* the keys of methods_by_file, in insertion order
RECURSIVE FilesOf(_, _)
FilesOf(vms, approved) ==
    IF approved = <<>> THEN <<>>
    ELSE LET front == FilesOf(vms, SubSeq(approved, 1, Len(approved) - 1))
             path == ApprovedMethod(vms, approved[Len(approved)]).file_path
         IN  IF \E k \in DOMAIN front : front[k] = path THEN front ELSE Append(front, path)

\* methods_by_file[file_path]: the approved methods of the file, in approval order
RECURSIVE MethodsByFile(_, _, _)
MethodsByFile(vms, approved, file_path) ==
    IF approved = <<>> THEN <<>>
    ELSE LET first == ApprovedMethod(vms, Head(approved))
         IN  (IF first.file_path = file_path THEN <<first.meth>> ELSE <<>>)
                \o MethodsByFile(vms, Tail(approved), file_path)

\* methods.sort(key=lambda m: m.block_start_line, reverse=True): a stable sort
RECURSIVE SortByBlockStart(_)
SortByBlockStart(methods) ==
    IF methods = <<>> THEN <<>>
    ELSE LET top == Max({methods[i].block_start_line : i \in DOMAIN methods})
             at_top == Min({i \in DOMAIN methods : methods[i].block_start_line = top})
         IN  <<methods[at_top]>>
                \o SortByBlockStart(SubSeq(methods, 1, at_top - 1)
                                       \o SubSeq(methods, at_top + 1, Len(methods)))

\* the loop filling lines_to_delete: a set of 0-based line indexes
RECURSIVE LinesToDelete(_, _, _)
LinesToDelete(original_lines, methods, lines_to_delete) ==
    IF methods = <<>> THEN lines_to_delete
    ELSE LET start_idx == Head(methods).block_start_line - 1
             end_idx == find_method_end_line(original_lines, start_idx) - 1
         IN  LinesToDelete(original_lines, Tail(methods),
                           lines_to_delete \cup start_idx..end_idx)

\* [line for i, line in enumerate(original_lines) if i not in lines_to_delete]
RECURSIVE NewLines(_, _, _)
NewLines(original_lines, i, lines_to_delete) ==
    IF i >= Len(original_lines) THEN <<>>
    ELSE (IF i \in lines_to_delete THEN <<>> ELSE <<original_lines[i + 1]>>)
            \o NewLines(original_lines, i + 1, lines_to_delete)

\* the body of the loop over methods_by_file for a file that could be read
PatchOf(original_lines, methods) ==
    LET lines_to_delete == LinesToDelete(original_lines, SortByBlockStart(methods), {})
    IN  [lines_to_delete |-> lines_to_delete,
         new_lines |-> NewLines(original_lines, 0, lines_to_delete)]

\* generate_patches(approved_methods): one patch for every file that can be read;
\* writing the patch file may fail with IOError, which is reported and passed over
GeneratePatches ==
    /\ patch_status = "approved"
    /\ IF approved_for_deletion = <<>>
       THEN /\ patches' = <<>>
            /\ patch_status' = "nothing"
       ELSE LET files == FilesOf(view_models, approved_for_deletion)
                readable == {files[k] : k \in DOMAIN files} \cap DOMAIN source_files
            IN  /\ \E written \in SUBSET readable :
                      patches' =
                         [file_path \in readable |->
                             [PatchOf(source_files[file_path],
                                      MethodsByFile(view_models, approved_for_deletion,
                                                    file_path))
                                 EXCEPT !.new_lines =
                                    IF file_path \in written THEN @ ELSE <<None>>]]
                /\ patch_status' = "written"
    /\ UNCHANGED source_files
    /\ UNCHANGED <<analysisVars, sessionVars, javaVars, zulVars>>

NextPatch ==
    \/ GeneratePatches

\* AViewModel.java and BViewModel.java, and the public methods the source
\* indexer found in them: [name, annotations, line, block_start_line]
SourceA ==
    << "package p;",
       "public class AViewModel {",
       "    @Command",
       "    public void run() {",
       "        if (ok) { go(); }",
       "    }",
       "    public void bar() { }",
       "    public void qux()",
       "    {",
       "    }",
       "}" >>
BodyA ==
    << MethodDecl("run", <<"@Command">>, 4, 3),
       MethodDecl("bar", <<>>, 7, 7),
       MethodDecl("qux", <<>>, 8, 8) >>
SourceB ==
    << "public class BViewModel {",
       "    @Command @NotifyChange({\"a\", \"b\"})",
       "    public void save() {",
       "        a = 1;",
       "    }",
       "    @Init",
       "    public void init() { }",
       "}" >>
BodyB ==
    << MethodDecl("save", <<"@Command @NotifyChange({\"a\", \"b\"})">>, 3, 2),
       MethodDecl("init", <<"@Init">>, 7, 6) >>

\* the methods the operator can have approved
Approvable ==
    { <<AVM, "run">>, <<AVM, "bar">>, <<AVM, "qux">>, <<BVM, "save">>, <<BVM, "init">> }

\* the lists interactive_session returns: approved methods, none twice
ApprovedLists ==
    UNION { { list \in [1..n -> Approvable] :
                \A i \in 1..n : \A j \in 1..n : list[i] = list[j] => i = j } :
            n \in 0..MaxApproved }

InitPatch ==
    /\ view_models = (AVM :> BuildViewModel("AViewModel", None, BodyA)
                        @@ BVM :> BuildViewModel("BViewModel", AVM, BodyB))
    /\ IGNORED_ANNOTATIONS = {}
    /\ zul_usages = NoUsages
    /\ stage = "analysed"
    /\ runs = 1
    /\ report = NoReport
    /\ cache = <<>>
    /\ cache_file = <<>>
    /\ candidates = <<>>
    /\ at = <<0, 0>>
    /\ approved_for_deletion \in ApprovedLists
    /\ quit_session = FALSE
    /\ session = "returned"
    /\ JavaOff
    /\ ZulOff
    /\ source_files \in { ("AViewModel.java" :> SourceA @@ "BViewModel.java" :> SourceB),
                          ("BViewModel.java" :> SourceB),
                          ("AViewModel.java" :> SourceA) }
    /\ patches = <<>>
    /\ patch_status = "approved"

SpecPatch == InitPatch /\ [][NextPatch]_vars

(***************************************************************************)
(* Properties of the usage model.                                           *)
(***************************************************************************)
\* the method of that name in a ViewModel that declares it
MethodOf(vm, name) == vm.methods[CHOOSE i \in DOMAIN vm.methods : vm.methods[i].name = name]

\* prefix is an initial segment of s
IsPrefix(prefix, s) == \E n \in 0..Len(s) : SubSeq(s, 1, n) = prefix

\* some annotation of the method begins with an entry of the ignore-list
HasIgnoredAnnotation(meth) ==
    \E k \in DOMAIN meth.annotations_text : \E ig \in IGNORED_ANNOTATIONS :
        IsPrefix(ig, meth.annotations_text[k])

\* the method counts as used by the rule of the specification
MethodLive(meth) == meth.used_in_java \/ meth.used_in_zul \/ HasIgnoredAnnotation(meth)

\* the ViewModel counts as used by the rule of the specification
ViewModelLive(vm) ==
    \/ vm.is_used_in_java
    \/ vm.is_used_in_zul
    \/ \E i \in DOMAIN vm.methods : MethodLive(vm.methods[i])

\* the usage index holds the binding of y, the identifier foo for it, and nothing else
OnlyFooOf(y) ==
    /\ zul_usages[y] = {y, "foo"}
    /\ \A f \in DOMAIN zul_usages \ {y} : zul_usages[f] = {}

\* x extends y, both declare foo, and the templates bind y only and invoke foo
OverrideScenario(x, y) ==
    /\ x \in DOMAIN view_models
    /\ y \in DOMAIN view_models
    /\ view_models[x].extends = y
    /\ HasMethod(view_models[x], "foo")
    /\ HasMethod(view_models[y], "foo")
    /\ OnlyFooOf(y)

C2_MethodIsUsed ==
    \A f \in DOMAIN view_models : \A i \in DOMAIN view_models[f].methods :
        LET meth == view_models[f].methods[i]
        IN  /\ MethodIsUsed(meth, IGNORED_ANNOTATIONS) <=> MethodLive(meth)
            /\ IGNORED_ANNOTATIONS = {} =>
                 (MethodIsUsed(meth, IGNORED_ANNOTATIONS)
                    <=> (meth.used_in_java \/ meth.used_in_zul))

\* C2 witness: after the analysis, a method without usage flag that is used through
\* an annotation of which the ignore-list holds a proper prefix
C2_Witness ==
    \E f \in DOMAIN view_models : \E i \in DOMAIN view_models[f].methods :
        LET meth == view_models[f].methods[i]
        IN  /\ runs >= 1
            /\ view_models[f].is_used_in_zul
            /\ ~meth.used_in_java
            /\ ~meth.used_in_zul
            /\ MethodIsUsed(meth, IGNORED_ANNOTATIONS)
            /\ \A k \in DOMAIN meth.annotations_text :
                   meth.annotations_text[k] \notin IGNORED_ANNOTATIONS

\* C3: a ViewModel is used exactly when it is used in Java, or bound in a template,
\* or one of its own methods is used; without any of these it is not used
C3_ViewModelIsUsed ==
    \A f \in DOMAIN view_models :
        LET vm == view_models[f]
        IN  /\ ViewModelIsUsed(vm, IGNORED_ANNOTATIONS) <=> ViewModelLive(vm)
            /\ (/\ ~vm.is_used_in_java
                /\ ~vm.is_used_in_zul
                /\ \A i \in DOMAIN vm.methods :
                      ~MethodIsUsed(vm.methods[i], IGNORED_ANNOTATIONS))
                 => ~ViewModelIsUsed(vm, IGNORED_ANNOTATIONS)

\* C3 witness: after the analysis, a ViewModel neither bound nor used in Java that
\* is used through a method marked from a subclass, beside one not used at all
C3_Witness ==
    /\ runs >= 1
    /\ \E f \in DOMAIN view_models :
          /\ ~view_models[f].is_used_in_java
          /\ ~view_models[f].is_used_in_zul
          /\ \E i \in DOMAIN view_models[f].methods : view_models[f].methods[i].used_in_zul
          /\ ViewModelIsUsed(view_models[f], IGNORED_ANNOTATIONS)
    /\ \E f \in DOMAIN view_models :
          /\ view_models[f].methods # <<>>
          /\ ~ViewModelIsUsed(view_models[f], IGNORED_ANNOTATIONS)

\* no usage flag of a method or of a ViewModel goes from true to false
FlagsKept(before, after) ==
    \A f \in DOMAIN before :
        /\ before[f].is_used_in_zul => after[f].is_used_in_zul
        /\ before[f].is_used_in_java => after[f].is_used_in_java
        /\ \A i \in DOMAIN before[f].methods :
              /\ before[f].methods[i].used_in_zul => after[f].methods[i].used_in_zul
              /\ before[f].methods[i].used_in_java => after[f].methods[i].used_in_java

\* C4: a call of run_analysis clears no flag, and a call after the first one
\* changes no flag at all, in whatever order view_models is iterated
C4_MonotonicIdempotent ==
    [][runs' = runs + 1 =>
          /\ FlagsKept(view_models, view_models')
          /\ runs >= 1 => view_models' = view_models]_vars

\* C4 witness: after a second run, a usage that reached the same-named method of
\* a grandparent class
C4_Witness ==
    /\ runs >= 2
    /\ \E x \in DOMAIN view_models :
          LET y == view_models[x].extends
          IN  /\ y \in DOMAIN view_models
              /\ view_models[y].extends \in DOMAIN view_models
              /\ \E i \in DOMAIN view_models[x].methods :
                    LET meth == view_models[x].methods[i]
                        top  == view_models[view_models[y].extends]
                    IN  /\ meth.used_in_zul
                        /\ HasMethod(top, meth.name)
                        /\ MethodOf(top, meth.name).used_in_zul

\* the ViewModels of the "Completely Unused ViewModels" section
ReportedUnused == {report.unused_vms[i] : i \in DOMAIN report.unused_vms}

\* the ViewModels of the "Unused Methods in Active ViewModels" section
ReportedWithIssues ==
    {report.used_vms_with_issues[i].vm : i \in DOMAIN report.used_vms_with_issues}

\* C9: the first section lists exactly the ViewModels that are neither bound, nor
\* used in Java, nor have a used method; the second exactly the used ViewModels
\* with an unused method, once each, with exactly their unused methods; no
\* ViewModel is in both
C9_ReportSections ==
    report # NoReport =>
        /\ ReportedUnused = {f \in DOMAIN view_models : ~ViewModelLive(view_models[f])}
        /\ ReportedWithIssues =
              {f \in DOMAIN view_models :
                  /\ ViewModelLive(view_models[f])
                  /\ \E i \in DOMAIN view_models[f].methods :
                        ~MethodLive(view_models[f].methods[i])}
        /\ \A i \in DOMAIN report.used_vms_with_issues :
              LET entry == report.used_vms_with_issues[i]
                  vm == view_models[entry.vm]
              IN  /\ {entry.unused[k] : k \in DOMAIN entry.unused}
                       = {vm.methods[j].name : j \in {j \in DOMAIN vm.methods :
                                                        ~MethodLive(vm.methods[j])}}
                  /\ \A j \in DOMAIN report.used_vms_with_issues :
                        report.used_vms_with_issues[j].vm = entry.vm => j = i
        /\ ReportedUnused \cap ReportedWithIssues = {}

\* C9 witness: a report with an unused ViewModel that has methods, and a used
\* ViewModel listed with some but not all of its methods
C9_Witness ==
    /\ report # NoReport
    /\ \E f \in ReportedUnused : view_models[f].methods # <<>>
    /\ \E i \in DOMAIN report.used_vms_with_issues :
          Len(report.used_vms_with_issues[i].unused)
             < Len(view_models[report.used_vms_with_issues[i].vm].methods)

(***************************************************************************)
(* Properties of the interactive session.                                   *)
(***************************************************************************)
\* C10: once the operator has answered q (or input was interrupted) the session
\* is over: it is not again in input(), no decision is put into the cache or
\* written to the cache file, and neither a cached decision nor an approved
\* method is lost at any step
C10_QuitEndsSession ==
    [][/\ quit_session' => session' = "returned"
       /\ quit_session => (cache' = cache /\ cache_file' = cache_file)
       /\ \A id \in DOMAIN cache : id \in DOMAIN cache' /\ cache'[id] = cache[id]
       /\ session' = "returned" =>
             \A k \in DOMAIN approved_for_deletion :
                \E n \in DOMAIN approved_for_deletion' :
                   approved_for_deletion'[n] = approved_for_deletion[k]]_vars

(***************************************************************************)
(* Properties of constant resolution.                                       *)
(***************************************************************************)
\* the class a simple name written in a file denotes: the class imported under
\* that name, else the class of that name in the file's own package
DenotedClass(tree, class_name) ==
    LET imported == {tree.imports[k] : k \in DOMAIN tree.imports}
    IN  IF \E path \in imported : LastSegment(path) = class_name
        THEN CHOOSE path \in imported : LastSegment(path) = class_name
        ELSE ClassFqdn(tree.pkg, class_name)

\* the constant references SomeClass.NAME in the command annotations of the
\* public methods of the project: [fqdn, method, key], key being the name the
\* constant table has for that constant
ConstantReferences ==
    UNION { UNION { UNION {
        { [fqdn |-> ClassFqdn(asts[f].tree.pkg, asts[f].tree.classes[c].name),
           method |-> asts[f].tree.classes[c].methods[m].name,
           key |-> DenotedClass(asts[f].tree, "SomeClass") \o "." \o const_name] :
            const_name \in
              { n \in {"CMD_NAME", "MISSING"} :
                  \E a \in DOMAIN asts[f].tree.classes[c].methods[m].raw_anns :
                     LET match == CommandMatch(asts[f].tree.classes[c].methods[m].raw_anns[a])
                     IN  /\ match # <<>>
                         /\ StripChars(match[1], Whitespace) = "SomeClass." \o n } } :
        m \in DOMAIN asts[f].tree.classes[c].methods } :
        c \in DOMAIN asts[f].tree.classes } :
        f \in DOMAIN asts }

\* C8: once the ViewModels are built, a method annotated @Command(SomeClass.NAME)
\* has as command name the value the constant table holds for SomeClass.NAME, the
\* same as a method annotated with that value as a string literal, and None when
\* the table has no entry for it
C8_ConstantRoundTrip ==
    stage = "viewmodels" =>
        \A r \in ConstantReferences :
            LET meth == MethodOf(view_models[r.fqdn], r.method)
                literal == MethodOf(view_models[r.fqdn], "doThing")
            IN  IF r.key \in DOMAIN resolved_constants
                THEN /\ meth.command_name = resolved_constants[r.key]
                     /\ resolved_constants[r.key] = "doThing"
                           => meth.command_name = literal.command_name
                ELSE meth.command_name = None

(***************************************************************************)
(* Properties of the template scan.                                         *)
(***************************************************************************)
\* whether a template file has a viewModel attribute of its own
DeclaresViewModel(path) ==
    \E e \in DOMAIN zul_files[path].elems :
        Truthy(AttribGet(zul_files[path].elems[e], "viewModel"))

\* the bindings <<alias, fqdn>> the viewModel attributes of a file declare
OwnBindings(path) ==
    { <<ZUL_VM_ID_REGEX(value)[1], ZUL_VM_INIT_REGEX(value)[1]>> :
        value \in { v \in { AttribGet(zul_files[path].elems[e], "viewModel") :
                              e \in DOMAIN zul_files[path].elems } :
                      /\ Truthy(v)
                      /\ ZUL_VM_ID_REGEX(v) # <<>>
                      /\ ZUL_VM_INIT_REGEX(v) # <<>> } }

\* the bindings <<alias, fqdn>> of a context
ContextBindings(ctx) ==
    IF ctx = <<>> THEN {} ELSE { <<alias, ctx[1][alias]>> : alias \in DOMAIN ctx[1] }

\* every pair <<fqdn, identifier>> is recorded against a class of the bindings
Through(added, bindings) == \A pair \in added : \E b \in bindings : b[2] = pair[1]

\* C5: a template entered through an include that has a viewModel attribute of its
\* own resolves with its own bindings only: its context holds no alias of the
\* includer, and whatever its scan records is recorded against a class it binds
C5_LocalContextReplaces ==
    \A k \in DOMAIN scans :
        (scans[k].includer # None /\ DeclaresViewModel(scans[k].file_path)) =>
            /\ ContextBindings(scans[k].context_for_this_file)
                  \subseteq OwnBindings(scans[k].file_path)
            /\ Through(scans[k].added, OwnBindings(scans[k].file_path))

\* C5: panel.zul, binding vm to p.BVM and using the alias other, has been included
\* by a file whose context binds vm to another class and binds other
C5_Witness ==
    \E k \in DOMAIN scans :
        /\ scans[k].includer # None
        /\ zul_files[scans[k].file_path] = PanelOwn
        /\ ContextTruthy(scans[k].parent_context)
        /\ {"vm", "other"} \subseteq DOMAIN scans[k].parent_context[1]
        /\ scans[k].parent_context[1]["vm"] # "p.BVM"
        /\ <<"p.BVM", "childOnly">> \in scans[k].added
        /\ "childOnly" \in all_usages["p.BVM"]

\* the files a template file's includes lead to
IncludedBy(path) ==
    IF path \notin DOMAIN zul_files \/ ~zul_files[path].parses THEN {}
    ELSE LET calls == CallsOf(zul_files[path].elems, 1, path, WebappRoot,
                              partial_match, ALL_PROJECT_FILES)
         IN  {abspath(calls[c].path) : c \in DOMAIN calls}

\* the files reachable from the files of S through includes, those of S included
RECURSIVE ReachableFrom(_)
ReachableFrom(S) ==
    LET T == S \cup UNION {IncludedBy(path) : path \in S}
    IN  IF T = S THEN S ELSE ReachableFrom(T)

\* whether the traversal that starts at file top runs into a cycle of includes
MeetsCycle(top) ==
    \E path \in ReachableFrom({top}) : path \in ReachableFrom(IncludedBy(path))

\* C6: a traversal over files that include each other in a cycle returns: it does
\* not end by an exception, it scans no file twice, and its recursion is never
\* deeper than the number of files
C6_CyclicIncludesReturn ==
    /\ \A k \in DOMAIN scans : scans[k].raised => ~MeetsCycle(scans[k].top)
    /\ \A i \in DOMAIN scans : \A j \in DOMAIN scans :
          (i # j /\ scans[i].top = scans[j].top) => scans[i].file_path # scans[j].file_path
    /\ Len(call_stack) <= Cardinality(DOMAIN zul_files)

\* the src values with a placeholder among the includes of a file
DynamicSources(path) ==
    { src \in { AttribGet(zul_files[path].elems[e], "src") :
                  e \in { d \in DOMAIN zul_files[path].elems :
                            zul_files[path].elems[d].tag = "include" } } :
        Truthy(src) /\ IndexOf(src, "${", 1) # 0 }

\* what is left of a src when its placeholders are taken out
StaticRemainder(src) == LStripSlash(RemovePlaceholders(src))

\* once find_zul_usages has returned, with the heuristic on: for every scanned
\* file and every include of it with a placeholder, every parseable project file
\* whose path ends with the static remainder was scanned in the same traversal
DynamicMatchesScanned ==
    (zul_status = "done" /\ partial_match) =>
        \A k \in DOMAIN scans : \A src \in DynamicSources(scans[k].file_path) :
            \A f \in DOMAIN ALL_PROJECT_FILES :
                (/\ EndsWith(ALL_PROJECT_FILES[f], StaticRemainder(src))
                 /\ zul_files[ALL_PROJECT_FILES[f]].parses)
                => \E j \in DOMAIN scans :
                      /\ scans[j].top = scans[k].top
                      /\ scans[j].file_path = ALL_PROJECT_FILES[f]

\* a file scanned for an include with a placeholder was entered, with the
\* heuristic on, for a src its path ends with, and inherited the context its
\* includer was scanned with
EnteredFromIncluder(k) ==
    /\ partial_match
    /\ \E i \in 1..(k - 1) :
          /\ scans[i].top = scans[k].top
          /\ scans[i].file_path = scans[k].includer
          /\ scans[i].context_for_this_file = scans[k].parent_context
          /\ \E src \in DynamicSources(scans[k].includer) :
                EndsWith(scans[k].file_path, StaticRemainder(src))

IdentifierMatch(meth, name) ==
    \/ meth.name = name
    \/ meth.command_name = name
    \/ meth.name = "get" \o Capitalized(name)
    \/ meth.name = "set" \o Capitalized(name)
    \/ meth.name = "is" \o Capitalized(name)

\* the first class of the parent chain, from fqdn on, in which some method matches
\* the identifier; None when the chain leaves the known ViewModels before
RECURSIVE FirstMatching(_, _, _)
FirstMatching(vms, fqdn, name) ==
    IF fqdn \notin DOMAIN vms THEN None
    ELSE IF \E i \in DOMAIN vms[fqdn].methods : IdentifierMatch(vms[fqdn].methods[i], name)
         THEN fqdn
         ELSE FirstMatching(vms, vms[fqdn].extends, name)

\* the known ViewModels above fqdn in its parent chain
RECURSIVE Ancestors(_, _)
Ancestors(vms, fqdn) ==
    IF fqdn \notin DOMAIN vms \/ vms[fqdn].extends \notin DOMAIN vms THEN {}
    ELSE {vms[fqdn].extends} \cup Ancestors(vms, vms[fqdn].extends)

\* the method meth of class q matches an identifier of the usage index whose climb,
\* stopping at the first class with a match, ends in q
ClimbMarks(vms, usages, q, meth) ==
    \E fqdn \in DOMAIN usages \cap DOMAIN vms : \E name \in usages[fqdn] :
        /\ FirstMatching(vms, fqdn, name) = q
        /\ IdentifierMatch(meth, name)

\* a method of a class below q has the name of meth and is used in a template,
\* before the call or by the climb
OverrideMarks(vms, usages, q, meth) ==
    \E v \in DOMAIN vms :
        /\ q \in Ancestors(vms, v)
        /\ \E j \in DOMAIN vms[v].methods :
              /\ vms[v].methods[j].name = meth.name
              /\ vms[v].methods[j].used_in_zul \/ ClimbMarks(vms, usages, v, vms[v].methods[j])

\* C11: a call of run_analysis marks, for every pair (fqdn, identifier) of the usage
\* index, the matching methods (by name, command name or accessor) of the first
\* class of the parent chain that has one, and no method of a class above it: a
\* method newly used in a template was marked by such a climb or has the name of a
\* method of a subclass that is used in a template
C11_ClimbStopsAtFirstMatch ==
    [][runs' = runs + 1 =>
          \A q \in DOMAIN view_models : \A i \in DOMAIN view_models[q].methods :
              LET meth == view_models[q].methods[i]
              IN  /\ ClimbMarks(view_models, zul_usages, q, meth)
                        => view_models'[q].methods[i].used_in_zul
                  /\ (view_models'[q].methods[i].used_in_zul /\ ~meth.used_in_zul)
                        => \/ ClimbMarks(view_models, zul_usages, q, meth)
                           \/ OverrideMarks(view_models, zul_usages, q, meth)]_vars

(***************************************************************************)
(* Properties of the attribution inside one template file.                  *)
(***************************************************************************)
\* the class bound by the nearest element, from element e up to and including the
\* root, whose viewModel attribute names an alias of the context; without such
\* an element the class of the alias vm of the context; None without that too
RECURSIVE NearestBound(_, _, _)
NearestBound(elems, e, ctx) ==
    LET id_m == ZUL_VM_ID_REGEX(AttribGet(elems[e], "viewModel"))
    IN  IF ContextTruthy(ctx) /\ id_m # <<>> /\ id_m[1] \in DOMAIN ctx[1]
        THEN ctx[1][id_m[1]]
        ELSE IF elems[e].parent # 0 THEN NearestBound(elems, elems[e].parent, ctx)
        ELSE IF ContextTruthy(ctx) /\ "vm" \in DOMAIN ctx[1] THEN ctx[1]["vm"]
        ELSE None

\* the command names in the attribute values of element e
CommandsOfElement(elems, e) ==
    UNION { {cmds[c] : c \in DOMAIN cmds} :
              cmds \in {COMMAND_REGEX(elems[e].attrib[a][2]) : a \in DOMAIN elems[e].attrib} }

\* the pairs <<fqdn, command>> of a file by the rule of the nearest binding
CommandPairs(elems, ctx) ==
    UNION { { <<NearestBound(elems, e, ctx), cmd>> : cmd \in CommandsOfElement(elems, e) } :
              e \in {d \in DOMAIN elems : NearestBound(elems, d, ctx) # None} }

\* the pairs <<fqdn, member>> of the alias.member expressions of a file, in
\* attribute values and in element text, whose alias is in the context
MemberPairs(elems, ctx) ==
    IF ctx = <<>> THEN {}
    ELSE UNION { MemberUsages(TextMembers(elems, e), ctx)
                   \cup UNION { MemberUsages(MEMBER_ACCESS_REGEX(elems[e].attrib[a][2]), ctx) :
                                  a \in DOMAIN elems[e].attrib } :
                 e \in DOMAIN elems }

\* C12: in every file scanned to its end, each command of an attribute of element E
\* is recorded against the class bound by the nearest element from E up to and
\* including the root that carries a binding of the context, else against the
\* alias vm of the context, else not at all: the scan records these pairs, and
\* beside them only the bound classes and the members of alias.member expressions
C12_CommandAtNearestBinding ==
    \A k \in DOMAIN scans :
        ~scans[k].raised =>
            LET elems == zul_files[scans[k].file_path].elems
                ctx == scans[k].context_for_this_file
            IN  /\ CommandPairs(elems, ctx) \subseteq scans[k].added
                /\ scans[k].added \subseteq
                      CommandPairs(elems, ctx) \cup ExistenceMarkers(elems)
                         \cup MemberPairs(elems, ctx)

\* the bindings the effective context of a scan has by the rule "the file-local
\* alias map when it is not empty, otherwise the inherited context"
LocalElseInherited(k) ==
    IF OwnBindings(scans[k].file_path) # {}
    THEN OwnBindings(scans[k].file_path)
    ELSE ContextBindings(scans[k].parent_context)

\* the pairs <<fqdn, member>> of the alias.member expressions of a file, in
\* attribute values and in element text, resolved through bindings <<alias, fqdn>>
MembersThrough(elems, bindings) ==
    UNION { { <<b[2], members[m][2]>> :
                m \in {n \in DOMAIN members : members[n][1] = b[1]} } :
            b \in bindings,
            members \in UNION { {TextMembers(elems, e)}
                                  \cup {MEMBER_ACCESS_REGEX(elems[e].attrib[a][2]) :
                                          a \in DOMAIN elems[e].attrib} :
                                e \in DOMAIN elems } }

\* C13: the effective context of every scanned file is its local alias map when
\* that map is not empty and the inherited context otherwise; a file scanned to
\* its end records its alias.member expressions through that context, and a file
\* it includes inherits that context
C13_LocalMapElseInherited ==
    \A k \in DOMAIN scans :
        /\ ContextBindings(scans[k].context_for_this_file) = LocalElseInherited(k)
        /\ ~scans[k].raised =>
              MembersThrough(zul_files[scans[k].file_path].elems, LocalElseInherited(k))
                 \subseteq scans[k].added
        /\ scans[k].includer # None =>
              \E i \in 1..(k - 1) :
                  /\ scans[i].top = scans[k].top
                  /\ scans[i].file_path = scans[k].includer
                  /\ ContextBindings(scans[k].parent_context) = LocalElseInherited(i)

\* C14: the template scan has no fatal error path: it never ends by an exception;
\* a file that fails to parse is skipped and records nothing; a file scanned
\* without any context records nothing, its expressions being left unattributed;
\* and once find_zul_usages has returned every parseable template of the walk
\* has been scanned
C14_ScanNeverRaises ==
    /\ zul_status # "raised"
    /\ \A k \in DOMAIN scans :
          /\ ~scans[k].raised
          /\ zul_files[scans[k].file_path].parses
          /\ scans[k].context_for_this_file = <<>> => scans[k].added = {}
    /\ zul_status = "done" =>
          \A f \in DOMAIN ALL_PROJECT_FILES :
              zul_files[ALL_PROJECT_FILES[f]].parses =>
                  \E k \in DOMAIN scans : scans[k].file_path = ALL_PROJECT_FILES[f]

\* the flags of the same-named methods agree upward: a flag of a method of v is
\* also set on the method of that name of every class above v that declares it
FlagsReachAncestors(vms) ==
    \A v \in DOMAIN vms : \A p \in Ancestors(vms, v) :
        \A i \in DOMAIN vms[v].methods : \A j \in DOMAIN vms[p].methods :
            vms[v].methods[i].name = vms[p].methods[j].name =>
                /\ vms[v].methods[i].used_in_java => vms[p].methods[j].used_in_java
                /\ vms[v].methods[i].used_in_zul => vms[p].methods[j].used_in_zul

\* some class below q declares a method of that name which has the flag in vms
FlagBelow(vms, q, name, flag) ==
    \E v \in DOMAIN vms :
        /\ q \in Ancestors(vms, v)
        /\ \E i \in DOMAIN vms[v].methods :
              /\ vms[v].methods[i].name = name
              /\ IF flag = "java" THEN vms[v].methods[i].used_in_java
                 ELSE vms[v].methods[i].used_in_zul

\* C15: after a call of run_analysis the flags of every method are also set on the
\* same-named method of every known ancestor of its class, at any distance and
\* across ancestors that do not declare it; and the reconciliation pass gives a
\* flag only to a method that has the name of a method, with that flag after the
\* first pass, of a class below its own
C15_UpwardTransitive ==
    [][runs' = runs + 1 =>
          /\ FlagsReachAncestors(view_models')
          /\ \E first_pass \in {AttributeUsages(view_models, zul_usages,
                                                SeqOf(UsageKeys(zul_usages)))} :
                \A q \in DOMAIN view_models : \A i \in DOMAIN view_models[q].methods :
                    /\ (view_models'[q].methods[i].used_in_java
                          /\ ~first_pass[q].methods[i].used_in_java)
                         => FlagBelow(first_pass, q, view_models[q].methods[i].name, "java")
                    /\ (view_models'[q].methods[i].used_in_zul
                          /\ ~first_pass[q].methods[i].used_in_zul)
                         => FlagBelow(first_pass, q, view_models[q].methods[i].name, "zul")]_vars

\* C15 witness: after run_analysis, a class whose method foo is used in a
\* template, its parent not declaring foo, and its grandparent's foo used in a
\* template although the usage index holds nothing for the grandparent
C15_Witness ==
    /\ runs >= 1
    /\ \E v \in DOMAIN view_models :
          LET p == view_models[v].extends
          IN  /\ p \in DOMAIN view_models
              /\ view_models[p].extends \in DOMAIN view_models
              /\ HasMethod(view_models[v], "foo")
              /\ ~HasMethod(view_models[p], "foo")
              /\ HasMethod(view_models[view_models[p].extends], "foo")
              /\ MethodOf(view_models[v], "foo").used_in_zul
              /\ MethodOf(view_models[view_models[p].extends], "foo").used_in_zul
              /\ zul_usages[view_models[p].extends] = {}
              /\ zul_usages[p] = {}

(***************************************************************************)
(* Properties of the Java-side resolver.                                    *)
(***************************************************************************)
\* the known ViewModel types a file declares a local variable of that name with
DeclaredTypes(ast, vms, variable) ==
    { ResolveType(ast, ast.lvds[d].type) :
        d \in { l \in DOMAIN ast.lvds :
                  /\ ResolveType(ast, ast.lvds[l].type) \in DOMAIN vms
                  /\ \E n \in DOMAIN ast.lvds[l].names : ast.lvds[l].names[n] = variable } }

\* the member names invoked, in some file, on a plain identifier declared in that
\* file as a local variable of ViewModel type fqdn
InvokedOn(trees, vms, fqdn) ==
    UNION { { trees[t].invs[i].member :
                i \in { n \in DOMAIN trees[t].invs :
                          /\ trees[t].invs[n].qualifier # None
                          /\ fqdn \in DeclaredTypes(trees[t], vms,
                                                    trees[t].invs[n].qualifier) } } :
            t \in DOMAIN trees }

\* whether some file instantiates the class fqdn
Instantiated(trees, fqdn) ==
    \E t \in DOMAIN trees : \E c \in DOMAIN trees[t].crs :
        ResolveType(trees[t], trees[t].crs[c]) = fqdn

\* the flags analyze_java_usages leaves by the rule of the specification
ResolvedFrom(trees, before, after) ==
    \A fqdn \in DOMAIN before :
        /\ after[fqdn].is_used_in_java <=>
              \/ before[fqdn].is_used_in_java
              \/ InvokedOn(trees, before, fqdn) # {}
              \/ Instantiated(trees, fqdn)
        /\ after[fqdn].is_used_in_zul <=> before[fqdn].is_used_in_zul
        /\ \A i \in DOMAIN before[fqdn].methods :
              /\ after[fqdn].methods[i].used_in_java <=>
                    \/ before[fqdn].methods[i].used_in_java
                    \/ before[fqdn].methods[i].name \in InvokedOn(trees, before, fqdn)
              /\ after[fqdn].methods[i].used_in_zul <=> before[fqdn].methods[i].used_in_zul

\* C16: analyze_java_usages marks a ViewModel used in Java exactly when a method is
\* invoked on a local variable declared with its type or when it is instantiated,
\* marks a method used in Java exactly when it is the one invoked on such a
\* variable, and changes no template flag
C16_JavaResolver ==
    [][(stage = "indexed" /\ stage' = "java") =>
          \A trees \in AstLists :
              view_models' = analyze_java_usages(trees, view_models)
                 => ResolvedFrom(trees, view_models, view_models')]_vars

(***************************************************************************)
(* Properties of the patch emitter.                                        *)
(***************************************************************************)
\* the braces opened minus the braces closed on the lines from..to (0-based)
RECURSIVE Balance(_, _, _)
Balance(lines, from, to) ==
    IF to < from THEN 0
    ELSE Balance(lines, from, to - 1) + Count(lines[to + 1], "{") - Count(lines[to + 1], "}")

\* the first line index at or after from where the cumulative brace count,
\* taken from line from, is back to zero after having gone positive
FirstReturnToZero(lines, from) ==
    LET back == {n \in from..(Len(lines) - 1) :
                    /\ \E k \in from..n : Count(lines[k + 1], "{") > 0
                    /\ Balance(lines, from, n) = 0}
    IN  IF back = {} THEN from ELSE Min(back)

\* the line index holding the closing brace of the body of meth: the brace
\* that balances the first one opened at or after the declaration line
BodyClose(lines, meth) == FirstReturnToZero(lines, meth.line - 1)

\* the approved methods of the file file_path
ApprovedIn(vms, approved, file_path) ==
    LET methods == MethodsByFile(vms, approved, file_path)
    IN  {methods[i] : i \in DOMAIN methods}

\* the orders the approved list can be processed in
Reorderings(approved) ==
    {list \in [DOMAIN approved -> {approved[i] : i \in DOMAIN approved}] :
        \A i \in DOMAIN approved : \E j \in DOMAIN approved : list[j] = approved[i]}

\* C17: for every approved method the deleted lines run from its block start line
\* to the line closing its body, that line being the first where the brace count
\* taken from the block start line is back to zero; the declaration line is always
\* deleted, also under an annotation line with balanced braces, and the result is
\* the same in any processing order
C17_PatchCoversAnnotatedBlock ==
    patch_status = "written" =>
        \A file_path \in DOMAIN patches :
            LET lines == source_files[file_path]
                methods == ApprovedIn(view_models, approved_for_deletion, file_path)
                patch == patches[file_path]
            IN  /\ patch.lines_to_delete =
                      UNION {(meth.block_start_line - 1)..BodyClose(lines, meth) :
                                meth \in methods}
                /\ \A meth \in methods :
                      /\ BodyClose(lines, meth)
                            = FirstReturnToZero(lines, meth.block_start_line - 1)
                      /\ (meth.line - 1) \in patch.lines_to_delete
                /\ \A list \in Reorderings(approved_for_deletion) :
                      PatchOf(lines, MethodsByFile(view_models, list, file_path)).lines_to_delete
                         = patch.lines_to_delete
                /\ patch.new_lines # <<None>> =>
                      /\ Len(patch.new_lines) + Cardinality(patch.lines_to_delete) = Len(lines)
                      /\ patch.new_lines = NewLines(lines, 0, patch.lines_to_delete)

====
